---- MODULE Spec2Model ----
(***************************************************************************)
(* A model of inspire_api: the value codec (utils.py), the register map    *)
(* (registers.py), the serial protocol engine (serial.py) and the Modbus   *)
(* register engine (modbus.py).                                            *)
(*                                                                         *)
(* One behaviour is one session: either a caller of the utils.py functions *)
(* (session = "utils"), or the life of one InspireHandSerial or one        *)
(* InspireHandModbus instance.  The caller is synchronous (no threads): a  *)
(* call is made from the idle state, runs to its outcome, and the caller   *)
(* takes the outcome (Return) before it makes the next call.  While a call *)
(* is recorded, `call` holds the operation and its arguments, `outcome`    *)
(* how it ended ("return" or the name of the exception raised), `ret` the  *)
(* value returned and `tx` what the call put on the transport.             *)
(***************************************************************************)
EXTENDS Integers, Sequences, FiniteSets, TLC

VARIABLES
    session,            \* "utils", "serial" or "modbus": what the caller drives
    generation,         \* InspireHandBase._generation
    debug,              \* InspireHandBase._debug
    connected,          \* InspireHandBase._connected
    ser,                \* InspireHandSerial._ser: "none", "open" or "closed"
    client,             \* InspireHandModbus._client: "none", "open" or "closed"
    orphans,            \* transports opened by connect() that are still open but
                        \* that the hand no longer references
    device_epoch,       \* which readings the device's tactile sensors hold
    scope,              \* "in" inside a `with hand:` block, "out" otherwise
    call,               \* the call in progress or just ended ([op |-> "none"] when idle)
    outcome,            \* "idle", "running", "return" or the exception raised
    ret,                \* the value the call returned
    tx,                 \* frames (serial) or transactions (Modbus) issued by the call
    remaining_count,    \* _read_register's loop variable (segmented read)
    current_address,    \* _read_register's loop variable (segmented read)
    all_results,        \* _read_register's accumulator (segmented read)
    sensor_index,       \* get_all_tactile_data: the entry of tactile_sensors in turn
    sensor_data,        \* get_all_tactile_data: (finger, position) -> matrix
    palm_data,          \* get_all_tactile_data: the palm matrix (<<>> for None)
    rx,                 \* the serial port's input buffer (what read_all() returns)
    pending,            \* bytes the serial device has still to send
    drain_reads         \* _write_register: read_all() calls of the drain loop so
                        \* far (it stops counting at MaxDrainReads)

vars == <<session, generation, debug, connected, ser, client, orphans, device_epoch,
          scope, call, outcome, ret, tx,
          remaining_count, current_address, all_results,
          sensor_index, sensor_data, palm_data, rx, pending, drain_reads>>

hand == <<session, generation, debug, connected, ser, client, orphans, device_epoch,
          scope>>
read_locals == <<remaining_count, current_address, all_results>>
tactile_locals == <<sensor_index, sensor_data, palm_data>>
locals == <<read_locals, tactile_locals>>
wire == <<rx, pending, drain_reads>>

(***************************************************************************)
(* constants.py                                                            *)
(***************************************************************************)
GEN3 == 3
GEN4 == 4
SERIAL_START_BYTE_1 == 235
SERIAL_START_BYTE_2 == 144
SERIAL_CMD_WRITE == 18
SERIAL_CMD_READ == 17
SERIAL_MIN_FRAME_SIZE == 7
MODBUS_MAX_REGISTERS_PER_READ == 125
NUM_JOINTS == 6
DEFAULT_HAND_ID == 1
MIN_ANGLE == 0
MAX_ANGLE == 1000
MIN_SPEED == 0
MAX_SPEED == 1000
MIN_FORCE == 0
MAX_FORCE == 1000
PLACEHOLDER_VALUE == -1
PLACEHOLDER_VALUE_16BIT == 65535
BYTE_MASK == 255
WORD_MASK == 65535
BITS_PER_BYTE == 8

(***************************************************************************)
(* Machine arithmetic.  Python's x & mask for mask = 2^k - 1 is x mod 2^k  *)
(* (also for negative x) and x >> n is floor division by 2^n.              *)
(*                                                                         *)
(* An element of the integer ndarray a caller passes (int64 by default) is *)
(* the record [high |-> h, low |-> l], the integer h * 2^32 + l with       *)
(* -2^31 <= l < 2^31.  ndarray.astype(np.int32) wraps modulo 2^32 into     *)
(* [-2^31, 2^31): it keeps l.  The elements of int32 arrays, bytes and     *)
(* words are plain integers.                                               *)
(***************************************************************************)
AndMask(x, mask) == x % (mask + 1)
ShiftRight(x, n) == x \div (2 ^ n)
ShiftLeft(x, n) == x * (2 ^ n)
Wide(h, l) == [high |-> h, low |-> l]
ToInt32(x) == x.low

Min(a, b) == IF a < b THEN a ELSE b

(***************************************************************************)
(* utils.py                                                                *)
(***************************************************************************)
Returned(v) == [outcome |-> "return", ret |-> v]
Raised(e) == [outcome |-> e, ret |-> <<>>]

\* values.flatten().astype(np.int32)
AsInt32Array(values) == [i \in 1..Len(values) |-> ToInt32(values[i])]

\* the `for i, val in enumerate(values_flat)` range check
JointValueOutOfRange(val, min_val, max_val) ==
    val # PLACEHOLDER_VALUE /\ (val < min_val \/ val > max_val)

\* `values` stands for the contents of a numpy.ndarray (the annotated input
\* type), so the isinstance check of the first statement passes.
validate_joint_values(values, value_type, min_val, max_val) ==
    LET values_flat == AsInt32Array(values) IN
    IF Len(values_flat) # NUM_JOINTS
    THEN Raised("ValidationError")
    ELSE IF \E i \in 1..Len(values_flat) :
                JointValueOutOfRange(values_flat[i], min_val, max_val)
         THEN Raised("ValidationError")
         ELSE Returned(values_flat)

validate_angles(angles) == validate_joint_values(angles, "angle", MIN_ANGLE, MAX_ANGLE)
validate_speeds(speeds) == validate_joint_values(speeds, "speed", MIN_SPEED, MAX_SPEED)
validate_forces(forces) == validate_joint_values(forces, "force", MIN_FORCE, MAX_FORCE)

\* the high byte first
int16_to_bytes_HighFirst(value) ==
    LET low_byte == AndMask(value, BYTE_MASK)
        high_byte == AndMask(ShiftRight(value, BITS_PER_BYTE), BYTE_MASK)
    IN <<high_byte, low_byte>>

int16_to_bytes(value) ==
    LET low_byte == AndMask(value, BYTE_MASK)
        high_byte == AndMask(ShiftRight(value, BITS_PER_BYTE), BYTE_MASK)
    IN <<low_byte, high_byte>>

\* the two bytes taken in big-endian order
bytes_to_int16_BigEndian(low, high) == ShiftLeft(low, 8) + high

bytes_to_int16(low, high) ==
    AndMask(low, BYTE_MASK) + ShiftLeft(AndMask(high, BYTE_MASK), BITS_PER_BYTE)

\* data[1:] in place of data[2:]
ChecksumInput_FromIndex1(data) == SubSeq(data, 2, Len(data))

\* data[2:]
ChecksumInput(data) == SubSeq(data, 3, Len(data))

\* what `for byte in data: checksum += byte` adds up (the sum is split in
\* halves to keep the depth of its evaluation logarithmic)
RECURSIVE SumBytes(_)
SumBytes(s) ==
    IF Len(s) = 0 THEN 0
    ELSE IF Len(s) = 1 THEN s[1]
    ELSE SumBytes(SubSeq(s, 1, Len(s) \div 2)) +
         SumBytes(SubSeq(s, (Len(s) \div 2) + 1, Len(s)))

calculate_checksum(data) == AndMask(SumBytes(ChecksumInput(data)), BYTE_MASK)

\* BYTE_MASK in place of WORD_MASK
ModbusWord_ByteMask(value) ==
    IF value = PLACEHOLDER_VALUE THEN 65535 ELSE AndMask(value, BYTE_MASK)

\* one element of convert_to_modbus_values' loop
ModbusWord(value) ==
    IF value = PLACEHOLDER_VALUE THEN 65535 ELSE AndMask(value, WORD_MASK)

convert_to_modbus_values(values) == [i \in 1..Len(values) |-> ModbusWord(values[i])]

convert_to_serial_bytes(values) ==
    [k \in 1..(2 * Len(values)) |->
        int16_to_bytes(values[(k + 1) \div 2])[((k - 1) % 2) + 1]]

convert_12bytes_to_6values(bytes_data) ==
    IF Len(bytes_data) < 12
    THEN Raised("ValidationError")
    ELSE Returned([i \in 1..6 |-> bytes_to_int16(bytes_data[2 * i - 1], bytes_data[2 * i])])

\* a column-major fill (order="F")
Reshape_ColumnMajor(data, n, m) == [r \in 1..n |-> [c \in 1..m |-> data[(c - 1) * n + r]]]

\* numpy's reshape(n, m, order="C") of a flat array: a sequence of n rows of m
Reshape(data, n, m) == [r \in 1..n |-> [c \in 1..m |-> data[(r - 1) * m + c]]]
\* numpy's .T of an n x m matrix
Transpose(matrix, n, m) == [c \in 1..m |-> [r \in 1..n |-> matrix[r][c]]]

\* the palm laid out like a finger
reshape_tactile_data_PalmAsFinger(raw_data, rows, cols, is_palm) ==
    LET expected_len == rows * cols IN
    IF Len(raw_data) # expected_len
    THEN Raised("ValidationError")
    ELSE Returned(Reshape(raw_data, rows, cols))

reshape_tactile_data(raw_data, rows, cols, is_palm) ==
    LET expected_len == rows * cols IN
    IF Len(raw_data) # expected_len
    THEN Raised("ValidationError")
    ELSE IF is_palm
         THEN Returned(Transpose(Reshape(raw_data, cols, rows), cols, rows))
         ELSE Returned(Reshape(raw_data, rows, cols))

(***************************************************************************)
(* Inputs of the calls.                                                    *)
(***************************************************************************)
\* Bounds of the input space.
MaxChecksumLen == 5       \* longest byte string given to calculate_checksum
MaxJointLenSkew == 1      \* joint arrays have NUM_JOINTS -skew .. +skew elements

\* Joint values a caller may pass in an integer ndarray (int64 by default):
\* the range ends, their neighbours, the placeholder, and values that differ
\* from these by 2^32.
JointProbes ==
    {Wide(0, -2), Wide(0, -1), Wide(0, 0), Wide(0, 500), Wide(0, 1000),
     Wide(0, 1001), Wide(1, -1), Wide(1, 500)}

JointBases == {Wide(0, 0), Wide(0, 500), Wide(0, -1)}

\* The ndarray of plain (in-range of int32) integers.
NdArray(seq) == [i \in 1..Len(seq) |-> Wide(0, seq[i])]

JointLens == (NUM_JOINTS - MaxJointLenSkew)..(NUM_JOINTS + MaxJointLenSkew)

\* The fixture of tests/conftest.py.
sample_angles == <<500, 500, 500, 500, 500, 0>>

\* Arrays equal to a base value except at one position.
JointInputs ==
    {NdArray(sample_angles)} \cup
    { [i \in 1..n |-> IF i = p THEN x ELSE b] :
        n \in JointLens, p \in 1..NUM_JOINTS, x \in JointProbes, b \in JointBases }

\* The arrays given to the setters of a hand: those that differ from 500 at
\* the first or the last position.
SetInputs ==
    {NdArray(sample_angles)} \cup
    { [i \in 1..n |-> IF i = p THEN x ELSE Wide(0, 500)] :
        n \in JointLens, p \in {1, NUM_JOINTS}, x \in JointProbes }

ValueTypes == {"angle", "speed", "force"}
ValueRanges == {<<MIN_ANGLE, MAX_ANGLE>>, <<100, 200>>}

ChecksumBytes == {0, 1, 255}
ChecksumInputs ==
    UNION { [1..n -> ChecksumBytes] : n \in 0..MaxChecksumLen }

\* Shapes and flat data given to reshape_tactile_data: the shapes of the
\* register map and a small non-square one; data of the right length, or off
\* by up to MaxFlatSkew; all elements different, or all equal.
MaxFlatSkew == 1
TactileShapes == {<<2, 3>>, <<3, 3>>, <<10, 8>>, <<8, 14>>}
FlatInputs(rows, cols) ==
    { [i \in 1..n |-> IF distinct THEN i ELSE 7] :
        n \in { k \in (rows * cols - MaxFlatSkew)..(rows * cols + MaxFlatSkew) : k >= 0 },
        distinct \in BOOLEAN }

(***************************************************************************)
(* registers.py.  An entry of a register dictionary is a record: a plain   *)
(* address has shape <<>>, a tactile entry (address, (rows, cols)) has     *)
(* shape <<rows, cols>>.                                                   *)
(***************************************************************************)
Scalar(address) == [addr |-> address, shape |-> <<>>]
Tactile(address, rows, cols) == [addr |-> address, shape |-> <<rows, cols>>]
\* isinstance(v, tuple)
IsTuple(v) == v.shape # <<>>

REGISTERS_GEN3 ==
    ("HAND_ID" :> Scalar(1000)) @@
    ("REDU_RATIO" :> Scalar(1001)) @@
    ("CLEAR_ERROR" :> Scalar(1004)) @@
    ("SAVE" :> Scalar(1005)) @@
    ("RESET_PARA" :> Scalar(1006)) @@
    ("GESTURE_FORCE_CLB" :> Scalar(1009)) @@
    ("CURRENT_LIMIT" :> Scalar(1020)) @@
    ("DEFAULT_SPEED_SET" :> Scalar(1032)) @@
    ("DEFAULT_FORCE_SET" :> Scalar(1044)) @@
    ("VLTAGE" :> Scalar(1472)) @@
    ("POS_SET" :> Scalar(1474)) @@
    ("ANGLE_SET" :> Scalar(1486)) @@
    ("FORCE_SET" :> Scalar(1498)) @@
    ("SPEED_SET" :> Scalar(1522)) @@
    ("POS_ACT" :> Scalar(1534)) @@
    ("ANGLE_ACT" :> Scalar(1546)) @@
    ("FORCE_ACT" :> Scalar(1582)) @@
    ("CURRENT" :> Scalar(1594)) @@
    ("ERROR" :> Scalar(1606)) @@
    ("STATUS" :> Scalar(1612)) @@
    ("TEMP" :> Scalar(1618)) @@
    ("ACTION_SEQ_CHECKDATA1" :> Scalar(2000)) @@
    ("ACTION_SEQ_CHECKDATA2" :> Scalar(2001)) @@
    ("ACTION_SEQ_STEPNUM" :> Scalar(2002)) @@
    ("ACTION_SEQ_STEP0" :> Scalar(2016)) @@
    ("ACTION_SEQ_STEP1" :> Scalar(2054)) @@
    ("ACTION_SEQ_STEP2" :> Scalar(2092)) @@
    ("ACTION_SEQ_STEP3" :> Scalar(2130)) @@
    ("ACTION_SEQ_STEP4" :> Scalar(2168)) @@
    ("ACTION_SEQ_STEP5" :> Scalar(2206)) @@
    ("ACTION_SEQ_STEP6" :> Scalar(2244)) @@
    ("ACTION_SEQ_STEP7" :> Scalar(2282)) @@
    ("ACTION_SEQ_INDEX" :> Scalar(2320)) @@
    ("SAVE_ACTION_SEQ" :> Scalar(2321)) @@
    ("ACTION_SEQ_RUN" :> Scalar(2322)) @@
    ("ACTION_ADJUST_FORCE_SET" :> Scalar(2334))

REGISTERS_GEN4 ==
    ("HAND_ID" :> Scalar(1000)) @@
    ("REDU_RATIO" :> Scalar(1001)) @@
    ("CLEAR_ERROR" :> Scalar(1004)) @@
    ("SAVE" :> Scalar(1005)) @@
    ("RESET_PARA" :> Scalar(1006)) @@
    ("GESTURE_FORCE_CLB" :> Scalar(1009)) @@
    ("DEFAULT_SPEED_SET" :> Scalar(1032)) @@
    ("DEFAULT_FORCE_SET" :> Scalar(1044)) @@
    ("POS_SET" :> Scalar(1474)) @@
    ("ANGLE_SET" :> Scalar(1486)) @@
    ("FORCE_SET" :> Scalar(1498)) @@
    ("SPEED_SET" :> Scalar(1522)) @@
    ("POS_ACT" :> Scalar(1534)) @@
    ("ANGLE_ACT" :> Scalar(1546)) @@
    ("FORCE_ACT" :> Scalar(1582)) @@
    ("CURRENT" :> Scalar(1594)) @@
    ("ERROR" :> Scalar(1606)) @@
    ("STATUS" :> Scalar(1612)) @@
    ("TEMP" :> Scalar(1618)) @@
    ("IP_PART1" :> Scalar(1700)) @@
    ("IP_PART2" :> Scalar(1701)) @@
    ("IP_PART3" :> Scalar(1702)) @@
    ("IP_PART4" :> Scalar(1703)) @@
    ("PINKY_TOP_TAC" :> Tactile(3000, 3, 3)) @@
    ("PINKY_TIP_TAC" :> Tactile(3018, 12, 8)) @@
    ("PINKY_BASE_TAC" :> Tactile(3210, 10, 8)) @@
    ("RING_TOP_TAC" :> Tactile(3370, 3, 3)) @@
    ("RING_TIP_TAC" :> Tactile(3388, 12, 8)) @@
    ("RING_BASE_TAC" :> Tactile(3580, 10, 8)) @@
    ("MIDDLE_TOP_TAC" :> Tactile(3740, 3, 3)) @@
    ("MIDDLE_TIP_TAC" :> Tactile(3758, 12, 8)) @@
    ("MIDDLE_BASE_TAC" :> Tactile(3950, 10, 8)) @@
    ("INDEX_TOP_TAC" :> Tactile(4110, 3, 3)) @@
    ("INDEX_TIP_TAC" :> Tactile(4128, 12, 8)) @@
    ("INDEX_BASE_TAC" :> Tactile(4320, 10, 8)) @@
    ("THUMB_TOP_TAC" :> Tactile(4480, 3, 3)) @@
    ("THUMB_TIP_TAC" :> Tactile(4498, 12, 8)) @@
    ("THUMB_MID_TAC" :> Tactile(4690, 3, 3)) @@
    ("THUMB_BASE_TAC" :> Tactile(4708, 10, 8)) @@
    ("PALM_TAC" :> Tactile(4900, 8, 14))

\* get_registers: the constructor admits generations 3 and 4 only
\* the other generation's entries as a fallback
get_registers_Fallback(gen) ==
    IF gen = 3 THEN REGISTERS_GEN3 @@ REGISTERS_GEN4 ELSE REGISTERS_GEN4 @@ REGISTERS_GEN3

get_registers(gen) == IF gen = 3 THEN REGISTERS_GEN3 ELSE REGISTERS_GEN4

\* InspireHandBase._regdict
regdict == get_registers(generation)

(***************************************************************************)
(* The initial state: nothing is constructed (utils) or a hand has just    *)
(* been constructed by InspireHandBase.__init__ and the engine's __init__. *)
(***************************************************************************)
Sessions == {"utils", "serial", "modbus"}
\* Bound of the constructor's inputs.
GenerationInputs == {2, 3, 4, 5}

\* the generation check left out
Base_init_Unchecked(gen, dbg) ==
    [outcome |-> "return",
     ret |-> [_generation |-> gen, _debug |-> dbg, _connected |-> FALSE]]

\* InspireHandBase.__init__(generation, debug): the instance, or ValueError
Base_init(gen, dbg) ==
    IF gen \notin {GEN3, GEN4}
    THEN [outcome |-> "ValueError", ret |-> <<>>]
    ELSE [outcome |-> "return",
          ret |-> [_generation |-> gen, _debug |-> dbg, _connected |-> FALSE]]

\* the generations of the hands that exist
Generations == {gen \in GenerationInputs : Base_init(gen, FALSE).outcome = "return"}
NoCall == [op |-> "none"]

Init ==
    /\ session \in Sessions
    /\ generation \in Generations
    /\ debug = FALSE
    /\ connected = FALSE
    /\ ser = "none"
    /\ client = "none"
    /\ orphans = 0
    /\ device_epoch = 0
    /\ scope = "out"
    /\ call = NoCall
    /\ outcome = "idle"
    /\ ret = <<>>
    /\ tx = <<>>
    /\ remaining_count = 0
    /\ current_address = 0
    /\ all_results = <<>>
    /\ sensor_index = 0
    /\ sensor_data = <<>>
    /\ palm_data = <<>>
    /\ rx = <<>>
    /\ pending = <<>>
    /\ drain_reads = 0

Idle == outcome = "idle"

(***************************************************************************)
(* base.py: __enter__ is connect() and `return self`; __exit__ is           *)
(* disconnect() and `return False`, so that the exception the block was     *)
(* left with, if any, goes on to the caller.  The return value of connect() *)
(* and of disconnect() is dropped.                                          *)
(***************************************************************************)
Connects == {"connect", "__enter__"}
Disconnects == {"disconnect", "__exit__"}

\* How a with-block is left: normally, or with an exception.
BlockExits == {"none", "BlockError"}

(***************************************************************************)
(* connect() binds self._ser / self._client to a new transport object and   *)
(* never closes the one it was bound to.  When that one is open, nothing   *)
(* references it any more: it stays open until the runtime finalizes it,   *)
(* which the program does not control (at once, or not while the hand      *)
(* lives).  Both outcomes are behaviours of the program.                   *)
(***************************************************************************)
MaxOrphans == 1

\* Whether the transport `previous` is finalized when connect() rebinds the
\* attribute (`rebound`): TRUE also when there is nothing to finalize.
Finalizations(previous, rebound) ==
    IF rebound /\ previous = "open"
    THEN {TRUE} \cup (IF orphans < MaxOrphans THEN {FALSE} ELSE {})
    ELSE {TRUE}

(***************************************************************************)
(* Calls of the utils.py functions.                                        *)
(***************************************************************************)
CallValidateJointValues ==
    /\ Idle
    /\ session = "utils"
    /\ \E values \in JointInputs, value_type \in ValueTypes, range \in ValueRanges :
           LET r == validate_joint_values(values, value_type, range[1], range[2]) IN
           /\ call' = [op |-> "validate_joint_values", values |-> values,
                       value_type |-> value_type,
                       min_val |-> range[1], max_val |-> range[2]]
           /\ outcome' = r.outcome
           /\ ret' = r.ret
           /\ tx' = <<>>
           /\ UNCHANGED <<hand, locals, wire>>

CallCalculateChecksum ==
    /\ Idle
    /\ session = "utils"
    /\ \E data \in ChecksumInputs :
           /\ call' = [op |-> "calculate_checksum", data |-> data]
           /\ outcome' = "return"
           /\ ret' = calculate_checksum(data)
           /\ tx' = <<>>
           /\ UNCHANGED <<hand, locals, wire>>

\* convert_to_modbus_values takes an int32 array.
CallConvertToModbusValues ==
    /\ Idle
    /\ session = "utils"
    /\ \E values \in JointInputs :
           /\ call' = [op |-> "convert_to_modbus_values", values |-> AsInt32Array(values)]
           /\ outcome' = "return"
           /\ ret' = convert_to_modbus_values(AsInt32Array(values))
           /\ tx' = <<>>
           /\ UNCHANGED <<hand, locals, wire>>

\* convert_to_serial_bytes takes an int32 array.
CallConvertToSerialBytes ==
    /\ Idle
    /\ session = "utils"
    /\ \E values \in JointInputs :
           /\ call' = [op |-> "convert_to_serial_bytes", values |-> AsInt32Array(values)]
           /\ outcome' = "return"
           /\ ret' = convert_to_serial_bytes(AsInt32Array(values))
           /\ tx' = <<>>
           /\ UNCHANGED <<hand, locals, wire>>

\* the constructor of a hand, called with any generation
NewHand ==
    /\ Idle
    /\ session = "utils"
    /\ \E gen \in GenerationInputs, dbg \in BOOLEAN :
           LET r == Base_init(gen, dbg) IN
           /\ call' = [op |-> "__init__", generation |-> gen, debug |-> dbg]
           /\ outcome' = r.outcome
           /\ ret' = r.ret
           /\ tx' = <<>>
           /\ UNCHANGED <<hand, locals, wire>>

\* set_debug(debug)
SetDebug ==
    /\ Idle
    /\ session # "utils"
    /\ \E dbg \in BOOLEAN :
           /\ debug' = dbg
           /\ call' = [op |-> "set_debug", debug |-> dbg]
           /\ outcome' = "return"
           /\ ret' = "None"
           /\ tx' = <<>>
           /\ UNCHANGED <<session, generation, connected, ser, client, orphans,
                          device_epoch, scope, locals, wire>>

CallReshapeTactileData ==
    /\ Idle
    /\ session = "utils"
    /\ \E shape \in TactileShapes, is_palm \in BOOLEAN :
         \E raw_data \in FlatInputs(shape[1], shape[2]) :
           LET r == reshape_tactile_data(raw_data, shape[1], shape[2], is_palm) IN
           /\ call' = [op |-> "reshape_tactile_data", raw_data |-> raw_data,
                       rows |-> shape[1], cols |-> shape[2], is_palm |-> is_palm]
           /\ outcome' = r.outcome
           /\ ret' = r.ret
           /\ tx' = <<>>
           /\ UNCHANGED <<hand, locals, wire>>

(***************************************************************************)
(* serial.py: InspireHandSerial.                                           *)
(***************************************************************************)
\* Bounds of the serial inputs.
MaxHandId == 1            \* hand ids 1..MaxHandId, and one that is no byte

HandIds == (1..MaxHandId) \cup {256}
SequenceIds == {0, 3, 255, 256}

\* is_connected()
SerialIsConnected == connected /\ ser # "none" /\ ser = "open"

\* bytes(frame) raises ValueError unless every element is in range(256)
IsByteString(frame) == \A i \in 1..Len(frame) : frame[i] \in 0..255

\* the `valid_addrs` set of _write_register
valid_addrs == { regdict[n].addr : n \in DOMAIN regdict }

\* the address bytes in big-endian order
WriteFrame_BigEndianAddress(hand_id, addr, num, val) ==
    <<SERIAL_START_BYTE_1, SERIAL_START_BYTE_2, hand_id, num + 3, SERIAL_CMD_WRITE,
      AndMask(ShiftRight(addr, 8), 255), AndMask(addr, 255)>> \o val

\* the frame _write_register builds, before the checksum is appended
WriteFrame(hand_id, addr, num, val) ==
    <<SERIAL_START_BYTE_1, SERIAL_START_BYTE_2, hand_id, num + 3, SERIAL_CMD_WRITE,
      AndMask(addr, 255), AndMask(ShiftRight(addr, 8), 255)>> \o val

\* the write command in place of the read command
ReadFrame_WriteCommand(hand_id, addr, num) ==
    <<SERIAL_START_BYTE_1, SERIAL_START_BYTE_2, hand_id, 4, SERIAL_CMD_WRITE,
      AndMask(addr, 255), AndMask(ShiftRight(addr, 8), 255), num>>

\* the frame _read_register builds, before the checksum is appended
ReadFrame(hand_id, addr, num) ==
    <<SERIAL_START_BYTE_1, SERIAL_START_BYTE_2, hand_id, 4, SERIAL_CMD_READ,
      AndMask(addr, 255), AndMask(ShiftRight(addr, 8), 255), num>>

\* frame.append(calculate_checksum(bytes(frame)))
WithChecksum(frame) == Append(frame, calculate_checksum(frame))

Result(o, r, t) == [outcome |-> o, ret |-> r, tx |-> t]

\* the address validation ahead of the connection check
Serial_write_register_ValidatesFirst(hand_id, addr, num, val) ==
    IF addr \notin valid_addrs
    THEN Result("ValidationError", <<>>, <<>>)
    ELSE IF ser = "none" \/ ~SerialIsConnected
    THEN Result("CommunicationError", <<>>, <<>>)
    ELSE IF ~IsByteString(WriteFrame(hand_id, addr, num, val))
    THEN Result("ValueError", <<>>, <<>>)
    ELSE Result("return", TRUE, <<WithChecksum(WriteFrame(hand_id, addr, num, val))>>)

\* _write_register up to the frame it hands to self._ser.write(); the write
\* and the drain loop after it are Serial_send and SerialDrain.
Serial_write_register(hand_id, addr, num, val) ==
    IF ser = "none" \/ ~SerialIsConnected
    THEN Result("CommunicationError", <<>>, <<>>)
    ELSE IF addr \notin valid_addrs
    THEN Result("ValidationError", <<>>, <<>>)
    ELSE IF ~IsByteString(WriteFrame(hand_id, addr, num, val))
    THEN Result("ValueError", <<>>, <<>>)
    ELSE Result("return", TRUE, <<WithChecksum(WriteFrame(hand_id, addr, num, val))>>)

\* the data taken from offset 6
ExtractData_FromOffset6(recv, num) ==
    LET num_received == AndMask(recv[4], 255) - 3
        actual_data_len == Min(num_received, Len(recv) - 7)
    IN [i \in 1..actual_data_len |-> recv[6 + i]]

\* The data extraction of _read_register from the received bytes.
ExtractData(recv, num) ==
    LET num_received == AndMask(recv[4], 255) - 3
        actual_data_len == Min(num_received, Len(recv) - 7)
    IN [i \in 1..actual_data_len |-> recv[7 + i]]

\* a reply whose last byte is not its checksum taken as no reply
Serial_read_register_Verified(hand_id, addr, num, recv) ==
    IF ser = "none" \/ ~SerialIsConnected
    THEN Result("CommunicationError", <<>>, <<>>)
    ELSE IF ~IsByteString(ReadFrame(hand_id, addr, num))
    THEN Result("ValueError", <<>>, <<>>)
    ELSE LET sent == <<WithChecksum(ReadFrame(hand_id, addr, num))>> IN
         IF Len(recv) = 0
         THEN Result("return", <<>>, sent)
         ELSE IF Len(recv) < SERIAL_MIN_FRAME_SIZE
         THEN Result("return", <<>>, sent)
         ELSE IF recv # WithChecksum(SubSeq(recv, 1, Len(recv) - 1))
         THEN Result("return", <<>>, sent)
         ELSE Result("return", ExtractData(recv, num), sent)

\* _read_register, `recv` being what read_all() returns after the delay.
Serial_read_register(hand_id, addr, num, recv) ==
    IF ser = "none" \/ ~SerialIsConnected
    THEN Result("CommunicationError", <<>>, <<>>)
    ELSE IF ~IsByteString(ReadFrame(hand_id, addr, num))
    THEN Result("ValueError", <<>>, <<>>)
    ELSE LET sent == <<WithChecksum(ReadFrame(hand_id, addr, num))>> IN
         IF Len(recv) = 0
         THEN Result("return", <<>>, sent)
         ELSE IF Len(recv) < SERIAL_MIN_FRAME_SIZE
         THEN Result("return", <<>>, sent)
         ELSE Result("return", ExtractData(recv, num), sent)

\* _read6
Serial_read6(hand_id, reg_name, recv) ==
    IF reg_name \notin DOMAIN regdict
    THEN Result("ValidationError", <<>>, <<>>)
    ELSE LET r == Serial_read_register(hand_id, regdict[reg_name].addr, 6, recv) IN
         IF r.outcome # "return" THEN r
         ELSE IF Len(r.ret) < 6 THEN Result("return", <<>>, r.tx)
         ELSE r

\* _read12
Serial_read12(hand_id, reg_name, recv) ==
    IF reg_name \notin DOMAIN regdict
    THEN Result("ValidationError", <<>>, <<>>)
    ELSE LET r == Serial_read_register(hand_id, regdict[reg_name].addr, 12, recv) IN
         IF r.outcome # "return" THEN r
         ELSE IF Len(r.ret) < 12 THEN Result("return", <<>>, r.tx)
         ELSE Result("return", convert_12bytes_to_6values(r.ret).ret, r.tx)

\* self._regdict[name] as an argument of a write: KeyError when absent
Serial_write_named(hand_id, reg_name, num, val) ==
    IF reg_name \notin DOMAIN regdict
    THEN Result("KeyError", <<>>, <<>>)
    ELSE Serial_write_register(hand_id, regdict[reg_name].addr, num, val)

\* set_angle, set_pos, set_speed, set_force: validate, encode, write
SerialSetters ==
    ("set_angle" :> "ANGLE_SET") @@ ("set_pos" :> "POS_SET") @@
    ("set_speed" :> "SPEED_SET") @@ ("set_force" :> "FORCE_SET")

ValidateFor(op, values) ==
    IF op \in {"set_angle", "set_pos"} THEN validate_angles(values)
    ELSE IF op = "set_speed" THEN validate_speeds(values)
    ELSE validate_forces(values)

Serial_set(op, values, hand_id) ==
    LET v == ValidateFor(op, values) IN
    IF v.outcome # "return"
    THEN Result(v.outcome, <<>>, <<>>)
    ELSE Serial_write_named(hand_id, SerialSetters[op], 12, convert_to_serial_bytes(v.ret))

\* What the port may hold when _read_register calls read_all(): nothing, a
\* fragment, or a device frame [0x90, 0xEB, id, len, cmd, addr_lo, addr_hi,
\* data..., checksum] whose length byte and data need not match the request.
DeviceFrame(hand_id, addr, declared, data) ==
    WithChecksum(<<SERIAL_START_BYTE_2, SERIAL_START_BYTE_1, AndMask(hand_id, 255),
                   AndMask(declared + 3, 256 - 1), SERIAL_CMD_READ,
                   AndMask(addr, 255), AndMask(ShiftRight(addr, 8), 255)>> \o data)

DeviceData(n) ==
    { [i \in 1..n |-> AndMask(i * 83, 255)], [i \in 1..n |-> 255] }

RecvBuffers(hand_id, addr, num) ==
    {<<>>, <<SERIAL_START_BYTE_2, SERIAL_START_BYTE_1, 1>>} \cup
    { DeviceFrame(hand_id, addr, declared, data) :
        declared \in {num, num - 1, num + 1, -3},
        data \in DeviceData(num) \cup DeviceData(num - 1) }

\* Bounds of the serial line.
MaxRxLen == 9             \* bytes the port's input buffer holds
MaxDrainReads == 2        \* read_all() calls of one drain loop that are counted

\* What the device sends after a write ("response buffer" in
\* _write_register): a sample, the acknowledgement frame [0x90, 0xEB, id, 4,
\* 0x12, addr_lo, addr_hi, 1, checksum] of hand 1 for ANGLE_SET.
DeviceAck ==
    WithChecksum(<<SERIAL_START_BYTE_2, SERIAL_START_BYTE_1, DEFAULT_HAND_ID, 4,
                   SERIAL_CMD_WRITE, AndMask(1486, 255),
                   AndMask(ShiftRight(1486, 8), 255), 1>>)

\* What the device sends when it answers a read only after SERIAL_READ_DELAY
\* has gone by: a sample, its reply [0x90, 0xEB, id, 4, 0x11, addr_lo,
\* addr_hi, data, checksum] to _read_register(1, 1546, 1).
LateRequest == <<DEFAULT_HAND_ID, 1546, 1>>
DeviceLateReply ==
    DeviceFrame(LateRequest[1], LateRequest[2], LateRequest[3], <<83>>)

\* What the port holds once _read_register(hand_id, addr, num) has returned,
\* its request having gone out (sent) and its read_all() having taken all
\* there was, `reply` being what the device had sent by then: nothing, or
\* the reply of a device that answers late.
Serial_late(hand_id, addr, num, sent, reply, late) ==
    IF /\ late
       /\ Len(sent) = 1
       /\ reply = <<>>
       /\ <<hand_id, addr, num>> = LateRequest
    THEN DeviceLateReply
    ELSE <<>>

\* self._ser.write(bytearray(frame)) of _write_register, `r` being the call
\* up to there: the write raises serial.SerialException, which nothing
\* catches, or the frame goes out, the device answers it or not, and the
\* drain loop is next.
Serial_send(r, write_fails, answered) ==
    IF r.outcome # "return"
    THEN [outcome |-> r.outcome, ret |-> r.ret, tx |-> r.tx, pending |-> pending]
    ELSE IF write_fails
    THEN [outcome |-> "SerialException", ret |-> <<>>, tx |-> <<>>, pending |-> pending]
    ELSE [outcome |-> "running", ret |-> <<>>, tx |-> r.tx,
          pending |-> IF answered THEN DeviceAck ELSE pending]

\* What the transport does to a read: nothing, write() raises, or
\* read_all() raises.
SerialFaults == {"none", "write", "read"}

\* self._ser.write() and self._ser.read_all() of _read_register, `r` being
\* the call with what read_all() returns when neither raises.
Serial_transfer(r, fault) ==
    IF r.outcome # "return" \/ fault = "none"
    THEN r
    ELSE IF fault = "write"
    THEN Result("SerialException", <<>>, <<>>)
    ELSE Result("SerialException", <<>>, r.tx)

\* The device puts the bytes it has still to send into the port's buffer,
\* and is then done or has the same bytes to send again.
DeviceSend ==
    /\ session = "serial"
    /\ ser = "open"
    /\ pending # <<>>
    /\ Len(rx) + Len(pending) <= MaxRxLen
    /\ rx' = rx \o pending
    /\ pending' \in {<<>>, pending}
    /\ UNCHANGED <<hand, call, outcome, ret, tx, locals, drain_reads>>

\* the loop giving up after MaxDrainReads reads
SerialDrain_Counted ==
    /\ session = "serial"
    /\ outcome = "running"
    /\ \E raises \in BOOLEAN :
           IF raises
           THEN /\ outcome' = "SerialException"
                /\ UNCHANGED <<ret, rx, drain_reads>>
           ELSE IF Len(rx) > 0 /\ drain_reads < MaxDrainReads
           THEN /\ rx' = <<>>
                /\ drain_reads' = Min(drain_reads + 1, MaxDrainReads)
                /\ UNCHANGED <<outcome, ret>>
           ELSE /\ outcome' = "return"
                /\ ret' = TRUE
                /\ UNCHANGED <<rx, drain_reads>>
    /\ UNCHANGED <<hand, call, tx, locals, pending>>

\* One turn of `while self._ser.in_waiting > 0: self._ser.read_all()` in
\* _write_register, then `return True`.
SerialDrain ==
    /\ session = "serial"
    /\ outcome = "running"
    /\ \E raises \in BOOLEAN :
           IF raises
           THEN /\ outcome' = "SerialException"
                /\ UNCHANGED <<ret, rx, drain_reads>>
           ELSE IF Len(rx) > 0
           THEN /\ rx' = <<>>
                /\ drain_reads' = Min(drain_reads + 1, MaxDrainReads)
                /\ UNCHANGED <<outcome, ret>>
           ELSE /\ outcome' = "return"
                /\ ret' = TRUE
                /\ UNCHANGED <<rx, drain_reads>>
    /\ UNCHANGED <<hand, call, tx, locals, pending>>

SerialConnect ==
    /\ Idle
    /\ session = "serial"
    /\ \E op \in Connects, opened \in BOOLEAN :
       \E finalized \in Finalizations(ser, opened) :
           /\ op = "__enter__" => scope = "out"
           /\ call' = [op |-> op]
           /\ IF opened
              THEN /\ ser' = "open"
                   /\ connected' = TRUE
                   /\ outcome' = "return"
                   /\ ret' = IF op = "connect" THEN TRUE ELSE "self"
              ELSE /\ ser' = ser
                   /\ connected' = FALSE
                   /\ outcome' = "ConnectionError"
                   /\ ret' = <<>>
           /\ scope' = IF op = "__enter__" /\ opened THEN "in" ELSE scope
           /\ orphans' = IF finalized THEN orphans ELSE orphans + 1
           /\ tx' = <<>>
           /\ rx' = IF opened THEN <<>> ELSE rx
           /\ UNCHANGED <<session, generation, debug, client, device_epoch, locals,
                          pending, drain_reads>>

SerialDisconnect ==
    /\ Idle
    /\ session = "serial"
    /\ \E op \in Disconnects, closed \in BOOLEAN, exc \in BlockExits :
           /\ op = "__exit__" => scope = "in"
           /\ op = "disconnect" => exc = "none"
           /\ call' = [op |-> op, exc |-> exc]
           /\ IF ser # "none"
              THEN IF closed
                   THEN /\ ser' = "closed"
                        /\ connected' = FALSE
                        /\ ret' = (op = "disconnect")
                   ELSE /\ UNCHANGED <<ser, connected>>
                        /\ ret' = FALSE
              ELSE /\ UNCHANGED <<ser, connected>>
                   /\ ret' = (op = "disconnect")
           /\ outcome' = IF exc = "none" THEN "return" ELSE exc
           /\ scope' = IF op = "__exit__" THEN "out" ELSE scope
           /\ tx' = <<>>
           /\ UNCHANGED <<session, generation, debug, client, orphans, device_epoch, locals, wire>>

SerialResetError ==
    /\ Idle
    /\ session = "serial"
    /\ \E write_fails \in BOOLEAN, answered \in BOOLEAN :
       LET r == Serial_send(Serial_write_named(DEFAULT_HAND_ID, "CLEAR_ERROR", 1, <<1>>),
                            write_fails, answered) IN
       /\ call' = [op |-> "reset_error", hand_id |-> DEFAULT_HAND_ID]
       /\ outcome' = r.outcome
       /\ ret' = r.ret
       /\ tx' = r.tx
       /\ pending' = r.pending
       /\ UNCHANGED <<hand, locals, rx, drain_reads>>

SerialSet ==
    /\ Idle
    /\ session = "serial"
    /\ \E op \in DOMAIN SerialSetters, values \in SetInputs, hand_id \in HandIds :
       \E write_fails \in BOOLEAN, answered \in BOOLEAN :
           LET r == Serial_send(Serial_set(op, values, hand_id), write_fails, answered) IN
           /\ call' = [op |-> op, values |-> values, hand_id |-> hand_id]
           /\ outcome' = r.outcome
           /\ ret' = r.ret
           /\ tx' = r.tx
           /\ pending' = r.pending
           /\ UNCHANGED <<hand, locals, rx, drain_reads>>

SerialSetActionSequence ==
    /\ Idle
    /\ session = "serial"
    /\ \E hand_id \in HandIds, sequence_id \in SequenceIds :
       \E write_fails \in BOOLEAN, answered \in BOOLEAN :
           LET r == Serial_send(Serial_write_named(hand_id, "ACTION_SEQ_INDEX", 1, <<sequence_id>>), write_fails, answered) IN
           /\ call' = [op |-> "set_action_sequence", hand_id |-> hand_id,
                       sequence_id |-> sequence_id]
           /\ outcome' = r.outcome
           /\ ret' = r.ret
           /\ tx' = r.tx
           /\ pending' = r.pending
           /\ UNCHANGED <<hand, locals, rx, drain_reads>>

SerialRunActionSequence ==
    /\ Idle
    /\ session = "serial"
    /\ \E hand_id \in HandIds :
       \E write_fails \in BOOLEAN, answered \in BOOLEAN :
           LET r == Serial_send(Serial_write_named(hand_id, "ACTION_SEQ_RUN", 1, <<1>>), write_fails, answered) IN
           /\ call' = [op |-> "run_action_sequence", hand_id |-> hand_id]
           /\ outcome' = r.outcome
           /\ ret' = r.ret
           /\ tx' = r.tx
           /\ pending' = r.pending
           /\ UNCHANGED <<hand, locals, rx, drain_reads>>

\* the getters built on _read12 and on _read6
SerialGetters12 ==
    ("get_angle_actual" :> "ANGLE_ACT") @@ ("get_angle_set" :> "ANGLE_SET") @@
    ("get_pos_actual" :> "POS_ACT") @@ ("get_pos_set" :> "POS_SET") @@
    ("get_speed_set" :> "SPEED_SET") @@ ("get_force_actual" :> "FORCE_ACT") @@
    ("get_force_set" :> "FORCE_SET")

SerialGetters6 ==
    ("get_current_actual" :> "CURRENT") @@ ("get_error" :> "ERROR") @@
    ("get_temp" :> "TEMP")

SerialGet12 ==
    /\ Idle
    /\ session = "serial"
    /\ \E op \in DOMAIN SerialGetters12, hand_id \in HandIds :
           \E fault \in SerialFaults,
              reply \in RecvBuffers(hand_id, regdict[SerialGetters12[op]].addr, 12) :
               LET r == Serial_transfer(
                            Serial_read12(hand_id, SerialGetters12[op], rx \o reply),
                            fault) IN
               /\ call' = [op |-> op, hand_id |-> hand_id, recv |-> rx \o reply,
                           stale |-> rx]
               /\ outcome' = r.outcome
               /\ ret' = r.ret
               /\ tx' = r.tx
               /\ rx' = IF r.outcome = "return" THEN <<>> ELSE rx
               /\ UNCHANGED <<hand, locals, pending, drain_reads>>

SerialGet6 ==
    /\ Idle
    /\ session = "serial"
    /\ \E op \in DOMAIN SerialGetters6, hand_id \in HandIds :
           \E fault \in SerialFaults,
              reply \in RecvBuffers(hand_id, regdict[SerialGetters6[op]].addr, 6) :
               LET r == Serial_transfer(
                            Serial_read6(hand_id, SerialGetters6[op], rx \o reply),
                            fault) IN
               /\ call' = [op |-> op, hand_id |-> hand_id, recv |-> rx \o reply,
                           stale |-> rx]
               /\ outcome' = r.outcome
               /\ ret' = r.ret
               /\ tx' = r.tx
               /\ rx' = IF r.outcome = "return" THEN <<>> ELSE rx
               /\ UNCHANGED <<hand, locals, pending, drain_reads>>

\* Direct calls of the two primitives.
WriteAddresses == {1486, 1020, 3000, 2320, 9999}
WritePayloads == {<<1, <<1>>>>, <<2, <<244, 1>>>>, <<1, <<256>>>>}
ReadAddresses == {1546, 1020, 9999}
ReadNums == {1, 6, 12, 256}

SerialWriteRegister ==
    /\ Idle
    /\ session = "serial"
    /\ \E hand_id \in HandIds, addr \in WriteAddresses, p \in WritePayloads :
       \E write_fails \in BOOLEAN, answered \in BOOLEAN :
           LET r == Serial_send(Serial_write_register(hand_id, addr, p[1], p[2]), write_fails, answered) IN
           /\ call' = [op |-> "_write_register", hand_id |-> hand_id, addr |-> addr,
                       num |-> p[1], val |-> p[2]]
           /\ outcome' = r.outcome
           /\ ret' = r.ret
           /\ tx' = r.tx
           /\ pending' = r.pending
           /\ UNCHANGED <<hand, locals, rx, drain_reads>>

SerialReadRegister ==
    /\ Idle
    /\ session = "serial"
    /\ \E hand_id \in HandIds, addr \in ReadAddresses, num \in ReadNums :
           \E fault \in SerialFaults,
              reply \in RecvBuffers(hand_id, addr, num),
              late \in BOOLEAN :
               LET r == Serial_transfer(
                            Serial_read_register(hand_id, addr, num, rx \o reply),
                            fault) IN
               /\ call' = [op |-> "_read_register", hand_id |-> hand_id, addr |-> addr,
                           num |-> num, recv |-> rx \o reply,
                           stale |-> rx]
               /\ outcome' = r.outcome
               /\ ret' = r.ret
               /\ tx' = r.tx
               /\ rx' = IF r.outcome = "return"
                         THEN Serial_late(hand_id, addr, num, r.tx, reply, late)
                         ELSE rx
               /\ UNCHANGED <<hand, locals, pending, drain_reads>>

(***************************************************************************)
(* modbus.py: InspireHandModbus.  A transaction is logged in tx as         *)
(* [fn, address, count or values, reply], the reply being what pymodbus    *)
(* hands back: a response with registers, an error response (isError()),   *)
(* or an exception.                                                        *)
(***************************************************************************)
\* Bounds of the Modbus inputs.
MaxReadCount == 251       \* the largest count given to _read_register
MaxTactileFaults == 1     \* short tactile reads in one get_all_tactile_data

\* is_connected()
ModbusIsConnected == connected /\ client # "none"

\* The device's holding registers.  The tactile sensors are read afresh by
\* the device between two snapshots: device_epoch tells the readings apart.
NumEpochs == 2
DevWord(address) == AndMask(address * 259 + device_epoch * 4099, WORD_MASK)
\* the words beyond the third taken from the next readings
DevWords_Torn(address, n) ==
    [i \in 1..n |->
        IF i <= 3 THEN DevWord(address + i - 1)
        ELSE AndMask((address + i - 1) * 259
                       + ((device_epoch + 1) % NumEpochs) * 4099, WORD_MASK)]
DevWords(address, n) == [i \in 1..n |-> DevWord(address + i - 1)]

\* What read_holding_registers(address, count) may hand back.
ReadReplies(address, count) ==
    { [kind |-> "ok", registers |-> DevWords(address, count)],
      [kind |-> "short", registers |-> DevWords(address, count - 1)],
      [kind |-> "short", registers |-> <<>>],
      [kind |-> "error", registers |-> <<>>],
      [kind |-> "exception", registers |-> <<>>] }

\* What write_registers(address, values) may hand back.
WriteReplies == {"ok", "error", "exception"}

ReadTxn(address, count, reply) ==
    [fn |-> "read", address |-> address, count |-> count, reply |-> reply]
WriteTxn(address, values, reply) ==
    [fn |-> "write", address |-> address, values |-> values, reply |-> reply]

\* _write_register
Modbus_write_register(address, values, reply) ==
    IF ~ModbusIsConnected
    THEN Result("CommunicationError", <<>>, <<>>)
    ELSE IF reply = "exception"
    THEN Result("CommunicationError", <<>>, <<WriteTxn(address, values, reply)>>)
    ELSE Result("return", TRUE, <<WriteTxn(address, values, reply)>>)

\* self._regdict[name] as an argument of a write: KeyError when absent
Modbus_write_named(reg_name, values, reply) ==
    IF reg_name \notin DOMAIN regdict
    THEN Result("KeyError", <<>>, <<>>)
    ELSE Modbus_write_register(regdict[reg_name].addr, values, reply)

\* set_angle, set_speed, set_force; set_pos calls set_angle
ModbusSetters ==
    ("set_angle" :> "ANGLE_SET") @@ ("set_pos" :> "ANGLE_SET") @@
    ("set_speed" :> "SPEED_SET") @@ ("set_force" :> "FORCE_SET")

Modbus_set(op, values, reply) ==
    LET v == ValidateFor(op, values) IN
    IF v.outcome # "return"
    THEN Result(v.outcome, <<>>, <<>>)
    ELSE Modbus_write_named(ModbusSetters[op], convert_to_modbus_values(v.ret), reply)

\* the isError() check left out
ReadAborts_ErrorIgnored(reply) == reply.kind = "exception"

\* the segment size without the min()
SegmentCount_NoMin(remaining) == MODBUS_MAX_REGISTERS_PER_READ

\* `if response.isError(): raise`, and an exception of the transport: both
\* end in the handler `except Exception`, which raises CommunicationError
ReadAborts(reply) == reply.kind \in {"error", "exception"}

\* min(remaining_count, MODBUS_MAX_REGISTERS_PER_READ)
SegmentCount(remaining) == Min(remaining, MODBUS_MAX_REGISTERS_PER_READ)

\* _read_register for count <= MODBUS_MAX_REGISTERS_PER_READ: one transaction
Modbus_read_single(address, count, reply) ==
    IF ~ModbusIsConnected
    THEN Result("CommunicationError", <<>>, <<>>)
    ELSE IF ReadAborts(reply)
    THEN Result("CommunicationError", <<>>, <<ReadTxn(address, count, reply)>>)
    ELSE Result("return", reply.registers, <<ReadTxn(address, count, reply)>>)

\* _read6_16bit
Modbus_read6_16bit(reg_name, reply) ==
    IF reg_name \notin DOMAIN regdict
    THEN Result("ValidationError", <<>>, <<>>)
    ELSE LET r == Modbus_read_single(regdict[reg_name].addr, 6, reply) IN
         IF r.outcome # "return" THEN r
         ELSE IF Len(r.ret) < 6 THEN Result("return", <<>>, r.tx)
         ELSE r

\* the high byte ahead of the low byte
SplitWords_HighFirst(val_act) ==
    [k \in 1..(2 * Len(val_act)) |->
        IF k % 2 = 1 THEN AndMask(ShiftRight(val_act[(k + 1) \div 2], 8), 255)
        ELSE AndMask(val_act[(k + 1) \div 2], 255)]

\* the byte split of _read6_8bit
SplitWords(val_act) ==
    [k \in 1..(2 * Len(val_act)) |->
        IF k % 2 = 1
        THEN AndMask(val_act[(k + 1) \div 2], 255)
        ELSE AndMask(ShiftRight(val_act[(k + 1) \div 2], 8), 255)]

\* _read6_8bit
Modbus_read6_8bit(reg_name, reply) ==
    IF reg_name \notin DOMAIN regdict
    THEN Result("ValidationError", <<>>, <<>>)
    ELSE LET r == Modbus_read_single(regdict[reg_name].addr, 3, reply) IN
         IF r.outcome # "return" THEN r
         ELSE IF Len(r.ret) < 3 THEN Result("return", <<>>, r.tx)
         ELSE Result("return", SplitWords(r.ret), r.tx)

ModbusConnect ==
    /\ Idle
    /\ session = "modbus"
    /\ \E op \in Connects, result \in BOOLEAN, finalized \in Finalizations(client, TRUE) :
           /\ op = "__enter__" => scope = "out"
           /\ call' = [op |-> op]
           /\ client' = IF result THEN "open" ELSE "closed"
           /\ connected' = result
           /\ outcome' = IF result THEN "return" ELSE "ConnectionError"
           /\ ret' = IF ~result THEN <<>> ELSE IF op = "connect" THEN TRUE ELSE "self"
           /\ scope' = IF op = "__enter__" /\ result THEN "in" ELSE scope
           /\ orphans' = IF finalized THEN orphans ELSE orphans + 1
           /\ tx' = <<>>
           /\ UNCHANGED <<session, generation, debug, ser, device_epoch, locals, wire>>

ModbusDisconnect ==
    /\ Idle
    /\ session = "modbus"
    /\ \E op \in Disconnects, closed \in BOOLEAN, exc \in BlockExits :
           /\ op = "__exit__" => scope = "in"
           /\ op = "disconnect" => exc = "none"
           /\ call' = [op |-> op, exc |-> exc]
           /\ IF client # "none" /\ connected
              THEN IF closed
                   THEN /\ client' = "closed"
                        /\ connected' = FALSE
                        /\ ret' = (op = "disconnect")
                   ELSE /\ UNCHANGED <<client, connected>>
                        /\ ret' = FALSE
              ELSE /\ UNCHANGED <<client, connected>>
                   /\ ret' = (op = "disconnect")
           /\ outcome' = IF exc = "none" THEN "return" ELSE exc
           /\ scope' = IF op = "__exit__" THEN "out" ELSE scope
           /\ tx' = <<>>
           /\ UNCHANGED <<session, generation, debug, ser, orphans, device_epoch, locals, wire>>

ModbusResetError ==
    /\ Idle
    /\ session = "modbus"
    /\ \E reply \in WriteReplies :
           LET r == Modbus_write_named("CLEAR_ERROR", <<1>>, reply) IN
           /\ call' = [op |-> "reset_error"]
           /\ outcome' = r.outcome
           /\ ret' = r.ret
           /\ tx' = r.tx
           /\ UNCHANGED <<hand, locals, wire>>

ModbusSet ==
    /\ Idle
    /\ session = "modbus"
    /\ \E op \in DOMAIN ModbusSetters, values \in JointInputs, reply \in WriteReplies :
           LET r == Modbus_set(op, values, reply) IN
           /\ call' = [op |-> op, values |-> values]
           /\ outcome' = r.outcome
           /\ ret' = r.ret
           /\ tx' = r.tx
           /\ UNCHANGED <<hand, locals, wire>>

ModbusSetActionSequence ==
    /\ Idle
    /\ session = "modbus"
    /\ \E sequence_id \in SequenceIds, reply \in WriteReplies :
           LET r == Modbus_write_named("ACTION_SEQ_INDEX", <<sequence_id>>, reply) IN
           /\ call' = [op |-> "set_action_sequence", sequence_id |-> sequence_id]
           /\ outcome' = r.outcome
           /\ ret' = r.ret
           /\ tx' = r.tx
           /\ UNCHANGED <<hand, locals, wire>>

ModbusRunActionSequence ==
    /\ Idle
    /\ session = "modbus"
    /\ \E reply \in WriteReplies :
           LET r == Modbus_write_named("ACTION_SEQ_RUN", <<1>>, reply) IN
           /\ call' = [op |-> "run_action_sequence"]
           /\ outcome' = r.outcome
           /\ ret' = r.ret
           /\ tx' = r.tx
           /\ UNCHANGED <<hand, locals, wire>>

\* the getters built on _read6_16bit and on _read6_8bit
ModbusGetters16 ==
    ("get_angle_actual" :> "ANGLE_ACT") @@ ("get_angle_set" :> "ANGLE_SET") @@
    ("get_pos_actual" :> "ANGLE_ACT") @@ ("get_pos_set" :> "ANGLE_SET") @@
    ("get_speed_set" :> "SPEED_SET") @@ ("get_force_actual" :> "FORCE_ACT") @@
    ("get_force_set" :> "FORCE_SET")

ModbusGetters8 ==
    ("get_error" :> "ERROR") @@ ("get_temperature" :> "TEMP") @@
    ("get_temp" :> "TEMP") @@ ("get_status" :> "STATUS")

ModbusGet16 ==
    /\ Idle
    /\ session = "modbus"
    /\ \E op \in DOMAIN ModbusGetters16 :
           \E reply \in ReadReplies(regdict[ModbusGetters16[op]].addr, 6) :
               LET r == Modbus_read6_16bit(ModbusGetters16[op], reply) IN
               /\ call' = [op |-> op]
               /\ outcome' = r.outcome
               /\ ret' = r.ret
               /\ tx' = r.tx
               /\ UNCHANGED <<hand, locals, wire>>

ModbusGet8 ==
    /\ Idle
    /\ session = "modbus"
    /\ \E op \in DOMAIN ModbusGetters8 :
           \E reply \in ReadReplies(regdict[ModbusGetters8[op]].addr, 3) :
               LET r == Modbus_read6_8bit(ModbusGetters8[op], reply) IN
               /\ call' = [op |-> op]
               /\ outcome' = r.outcome
               /\ ret' = r.ret
               /\ tx' = r.tx
               /\ UNCHANGED <<hand, locals, wire>>

\* Direct calls of the two primitives.
ModbusAddresses == {1000, 1486}
ModbusWriteValues == {<<1>>, <<500, 65535>>}
ReadCounts ==
    {1, 6, MODBUS_MAX_REGISTERS_PER_READ, MODBUS_MAX_REGISTERS_PER_READ + 1, 200,
     2 * MODBUS_MAX_REGISTERS_PER_READ, MaxReadCount}

ModbusWriteRegister ==
    /\ Idle
    /\ session = "modbus"
    /\ \E address \in ModbusAddresses, values \in ModbusWriteValues,
          reply \in WriteReplies :
           LET r == Modbus_write_register(address, values, reply) IN
           /\ call' = [op |-> "_write_register", address |-> address,
                       values |-> values]
           /\ outcome' = r.outcome
           /\ ret' = r.ret
           /\ tx' = r.tx
           /\ UNCHANGED <<hand, locals, wire>>

\* _read_register, not connected or count <= MODBUS_MAX_REGISTERS_PER_READ
ModbusReadRegister ==
    /\ Idle
    /\ session = "modbus"
    /\ \E address \in ModbusAddresses, count \in ReadCounts :
           /\ ~ModbusIsConnected \/ count <= MODBUS_MAX_REGISTERS_PER_READ
           /\ \E reply \in ReadReplies(address, count) :
                  LET r == Modbus_read_single(address, count, reply) IN
                  /\ call' = [op |-> "_read_register", address |-> address,
                              count |-> count]
                  /\ outcome' = r.outcome
                  /\ ret' = r.ret
                  /\ tx' = r.tx
                  /\ UNCHANGED <<hand, locals, wire>>

\* _read_register, count > MODBUS_MAX_REGISTERS_PER_READ: up to the loop
ModbusReadSegmented ==
    /\ Idle
    /\ session = "modbus"
    /\ ModbusIsConnected
    /\ \E address \in ModbusAddresses, count \in ReadCounts :
           /\ count > MODBUS_MAX_REGISTERS_PER_READ
           /\ call' = [op |-> "_read_register", address |-> address, count |-> count]
           /\ outcome' = "running"
           /\ ret' = <<>>
           /\ tx' = <<>>
           /\ all_results' = <<>>
           /\ remaining_count' = count
           /\ current_address' = address
           /\ UNCHANGED <<hand, tactile_locals, wire>>

\* one iteration of `while remaining_count > 0`, and the return after the last
ModbusReadSegment ==
    /\ outcome = "running"
    /\ call.op = "_read_register"
    /\ remaining_count > 0
    /\ LET segment_count == SegmentCount(remaining_count) IN
       \E reply \in ReadReplies(current_address, segment_count) :
           /\ tx' = Append(tx, ReadTxn(current_address, segment_count, reply))
           /\ IF ReadAborts(reply)
              THEN /\ outcome' = "CommunicationError"
                   /\ ret' = <<>>
                   /\ all_results' = <<>>
                   /\ remaining_count' = 0
                   /\ current_address' = 0
              ELSE IF remaining_count - segment_count > 0
              THEN /\ outcome' = "running"
                   /\ ret' = <<>>
                   /\ all_results' = all_results \o reply.registers
                   /\ remaining_count' = remaining_count - segment_count
                   /\ current_address' = current_address + segment_count
              ELSE /\ outcome' = "return"
                   /\ ret' = all_results \o reply.registers
                   /\ all_results' = <<>>
                   /\ remaining_count' = 0
                   /\ current_address' = 0
           /\ UNCHANGED <<hand, call, tactile_locals, wire>>

\* The device, on its side of read_holding_registers: its registers take new
\* readings between two calls and between two segment transactions of one
\* _read_register.  (The new readings of a get_all_tactile_data are the ones
\* its first step takes.)
DeviceChange ==
    /\ session = "modbus"
    /\ outcome = "idle" \/ (outcome = "running" /\ call.op = "_read_register")
    /\ device_epoch' = (device_epoch + 1) % NumEpochs
    /\ UNCHANGED <<session, generation, debug, connected, ser, client, orphans, scope,
                   call, outcome, ret, tx, locals, wire>>

(***************************************************************************)
(* modbus.py: the tactile sensors.                                         *)
(***************************************************************************)
\* the generation check left out
TactileSupported_Unchecked(gen) == TRUE

\* `if self._generation != 4: raise GenerationError`
TactileSupported(gen) == gen = 4

\* the palm entry moved to the front of the dict
tactile_sensors_PalmFirst ==
    << <<"PALM_TAC", "palm", "None">>,
       <<"PINKY_TOP_TAC", "pinky", "top">>,
       <<"PINKY_TIP_TAC", "pinky", "tip">>,
       <<"PINKY_BASE_TAC", "pinky", "base">>,
       <<"RING_TOP_TAC", "ring", "top">>,
       <<"RING_TIP_TAC", "ring", "tip">>,
       <<"RING_BASE_TAC", "ring", "base">>,
       <<"MIDDLE_TOP_TAC", "middle", "top">>,
       <<"MIDDLE_TIP_TAC", "middle", "tip">>,
       <<"MIDDLE_BASE_TAC", "middle", "base">>,
       <<"INDEX_TOP_TAC", "index", "top">>,
       <<"INDEX_TIP_TAC", "index", "tip">>,
       <<"INDEX_BASE_TAC", "index", "base">>,
       <<"THUMB_TOP_TAC", "thumb", "top">>,
       <<"THUMB_TIP_TAC", "thumb", "tip">>,
       <<"THUMB_MID_TAC", "thumb", "mid">>,
       <<"THUMB_BASE_TAC", "thumb", "base">> >>

\* the `tactile_sensors` dictionary of get_all_tactile_data, in its order
tactile_sensors ==
    << <<"PINKY_TOP_TAC", "pinky", "top">>,
       <<"PINKY_TIP_TAC", "pinky", "tip">>,
       <<"PINKY_BASE_TAC", "pinky", "base">>,
       <<"RING_TOP_TAC", "ring", "top">>,
       <<"RING_TIP_TAC", "ring", "tip">>,
       <<"RING_BASE_TAC", "ring", "base">>,
       <<"MIDDLE_TOP_TAC", "middle", "top">>,
       <<"MIDDLE_TIP_TAC", "middle", "tip">>,
       <<"MIDDLE_BASE_TAC", "middle", "base">>,
       <<"INDEX_TOP_TAC", "index", "top">>,
       <<"INDEX_TIP_TAC", "index", "tip">>,
       <<"INDEX_BASE_TAC", "index", "base">>,
       <<"THUMB_TOP_TAC", "thumb", "top">>,
       <<"THUMB_TIP_TAC", "thumb", "tip">>,
       <<"THUMB_MID_TAC", "thumb", "mid">>,
       <<"THUMB_BASE_TAC", "thumb", "base">>,
       <<"PALM_TAC", "palm", "None">> >>

\* dict.get(key, default)
Get(dict, key, default) == IF key \in DOMAIN dict THEN dict[key] ELSE default

\* the tip frame taken from the top sensor
FingerObject_TipFromTop(data, finger) ==
    [top |-> Get(data, <<finger, "top">>, <<>>),
     tip |-> Get(data, <<finger, "top">>, <<>>),
     base |-> Get(data, <<finger, "base">>, <<>>)]

\* FingerSensorData of a finger: built when the finger has any entry in
\* sensor_data, the empty_finger otherwise (all frames np.array([]) either way)
FingerObject(data, finger) ==
    [top |-> Get(data, <<finger, "top">>, <<>>),
     tip |-> Get(data, <<finger, "tip">>, <<>>),
     base |-> Get(data, <<finger, "base">>, <<>>)]

ThumbObject(data) ==
    [top |-> Get(data, <<"thumb", "top">>, <<>>),
     tip |-> Get(data, <<"thumb", "tip">>, <<>>),
     mid |-> Get(data, <<"thumb", "mid">>, <<>>),
     base |-> Get(data, <<"thumb", "base">>, <<>>)]

\* the TactileData returned (its timestamp is left out)
TactileDataOf(data, palm) ==
    [pinky |-> FingerObject(data, "pinky"),
     ring |-> FingerObject(data, "ring"),
     middle |-> FingerObject(data, "middle"),
     index |-> FingerObject(data, "index"),
     thumb |-> ThumbObject(data),
     palm |-> palm]

\* the short reads among the transactions of the call so far
ShortReads(log) == Cardinality({i \in 1..Len(log) : log[i].reply.kind = "short"})

\* What a tactile read may hand back: as ReadReplies, with at most
\* MaxTactileFaults short replies in one get_all_tactile_data.
TactileReplies(address, count, log) ==
    { reply \in ReadReplies(address, count) :
        reply.kind = "short" => ShortReads(log) < MaxTactileFaults }

\* get_all_tactile_data up to its loop
ModbusGetAllTactileData ==
    /\ Idle
    /\ session = "modbus"
    /\ call' = [op |-> "get_all_tactile_data"]
    /\ outcome' = IF TactileSupported(generation) THEN "running" ELSE "GenerationError"
    /\ sensor_index' = IF TactileSupported(generation) THEN 1 ELSE 0
    /\ ret' = <<>>
    /\ tx' = <<>>
    /\ sensor_data' = <<>>
    /\ palm_data' = <<>>
    /\ device_epoch' = (device_epoch + 1) % NumEpochs
    /\ UNCHANGED <<session, generation, debug, connected, ser, client, orphans, scope,
                 read_locals, wire>>

\* The state after one iteration of the loop over tactile_sensors that ended
\* with sensor_data d and palm_data p: the next iteration, or the return.
\* (Every tactile entry has rows * cols <= MODBUS_MAX_REGISTERS_PER_READ, so
\* each _read_register of the loop is a single transaction.)
AfterTactileEntry(d, p) ==
    IF sensor_index < Len(tactile_sensors)
    THEN /\ outcome' = "running"
         /\ ret' = <<>>
         /\ sensor_index' = sensor_index + 1
         /\ sensor_data' = d
         /\ palm_data' = p
    ELSE /\ outcome' = "return"
         /\ ret' = TactileDataOf(d, p)
         /\ sensor_index' = 0
         /\ sensor_data' = <<>>
         /\ palm_data' = <<>>

\* one iteration of `for reg_name, (finger, position) in tactile_sensors.items()`
ModbusTactileEntry ==
    /\ outcome = "running"
    /\ call.op = "get_all_tactile_data"
    /\ LET reg_name == tactile_sensors[sensor_index][1]
           finger == tactile_sensors[sensor_index][2]
           position == tactile_sensors[sensor_index][3]
       IN
       IF reg_name \notin DOMAIN regdict
       THEN /\ tx' = tx
            /\ AfterTactileEntry(sensor_data, palm_data)
       ELSE LET address == regdict[reg_name].addr
                rows == regdict[reg_name].shape[1]
                cols == regdict[reg_name].shape[2]
                total_elements == rows * cols
            IN
            \E reply \in TactileReplies(address, total_elements, tx) :
                LET r == Modbus_read_single(address, total_elements, reply)
                    is_palm == finger = "palm"
                    matrix == reshape_tactile_data(r.ret, rows, cols, is_palm).ret
                IN
                /\ tx' = tx \o r.tx
                /\ IF r.outcome # "return"
                   THEN /\ outcome' = r.outcome
                        /\ ret' = <<>>
                        /\ sensor_index' = 0
                        /\ sensor_data' = <<>>
                        /\ palm_data' = <<>>
                   ELSE IF Len(r.ret) # total_elements
                   THEN AfterTactileEntry(sensor_data, palm_data)
                   ELSE IF is_palm
                   THEN AfterTactileEntry(sensor_data, matrix)
                   ELSE AfterTactileEntry(
                            (<<finger, position>> :> matrix) @@ sensor_data, palm_data)
    /\ UNCHANGED <<hand, call, read_locals, wire>>

\* "tip" spelled as "TOP"
Upper_TipAsTop ==
    ("pinky" :> "PINKY") @@ ("ring" :> "RING") @@ ("middle" :> "MIDDLE") @@
    ("index" :> "INDEX") @@ ("thumb" :> "THUMB") @@ ("top" :> "TOP") @@
    ("tip" :> "TOP") @@ ("mid" :> "MID") @@ ("base" :> "BASE")

\* str.upper() of the finger and position names get_tactile_data admits
Upper ==
    ("pinky" :> "PINKY") @@ ("ring" :> "RING") @@ ("middle" :> "MIDDLE") @@
    ("index" :> "INDEX") @@ ("thumb" :> "THUMB") @@ ("top" :> "TOP") @@
    ("tip" :> "TIP") @@ ("mid" :> "MID") @@ ("base" :> "BASE")

\* the read and reshape of one sensor in get_tactile_data
ReadSensor(reg_name, is_palm, reply) ==
    LET rows == regdict[reg_name].shape[1]
        cols == regdict[reg_name].shape[2]
        total_elements == rows * cols
        r == Modbus_read_single(regdict[reg_name].addr, total_elements, reply)
    IN
    IF r.outcome # "return" THEN r
    ELSE IF Len(r.ret) # total_elements THEN Result("return", <<>>, r.tx)
    ELSE Result("return", reshape_tactile_data(r.ret, rows, cols, is_palm).ret, r.tx)

\* get_tactile_data; reply_of(address, count) is what the read hands back
Modbus_get_tactile_data(finger, position, reply_kind) ==
    LET reply_of(reg_name) ==
            CHOOSE reply \in ReadReplies(regdict[reg_name].addr,
                                         regdict[reg_name].shape[1] *
                                         regdict[reg_name].shape[2]) :
                /\ reply.kind = reply_kind[1]
                /\ (reply.registers = <<>>) = reply_kind[2]
    IN
    IF ~TactileSupported(generation)
    THEN Result("GenerationError", <<>>, <<>>)
    ELSE IF finger = "palm"
    THEN IF "PALM_TAC" \notin DOMAIN regdict
         THEN Result("ValidationError", <<>>, <<>>)
         ELSE ReadSensor("PALM_TAC", TRUE, reply_of("PALM_TAC"))
    ELSE IF finger \notin {"pinky", "ring", "middle", "index", "thumb"}
    THEN Result("ValidationError", <<>>, <<>>)
    ELSE IF finger = "thumb" /\ position \notin {"top", "tip", "mid", "base"}
    THEN Result("ValidationError", <<>>, <<>>)
    ELSE IF finger # "thumb" /\ position \notin {"top", "tip", "base"}
    THEN Result("ValidationError", <<>>, <<>>)
    ELSE LET reg_name == Upper[finger] \o "_" \o Upper[position] \o "_TAC" IN
         IF reg_name \notin DOMAIN regdict
         THEN Result("ValidationError", <<>>, <<>>)
         ELSE ReadSensor(reg_name, FALSE, reply_of(reg_name))

Fingers == {"pinky", "ring", "middle", "index", "thumb", "palm", "toe"}
Positions == {"top", "tip", "mid", "base", "", "side"}
\* the kinds of reply of ReadReplies: <<kind, whether no register came>>
ReplyKinds ==
    {<<"ok", FALSE>>, <<"short", FALSE>>, <<"short", TRUE>>,
     <<"error", TRUE>>, <<"exception", TRUE>>}

ModbusGetTactileData ==
    /\ Idle
    /\ session = "modbus"
    /\ \E finger \in Fingers, position \in Positions, reply_kind \in ReplyKinds :
           LET r == Modbus_get_tactile_data(finger, position, reply_kind) IN
           /\ call' = [op |-> "get_tactile_data", finger |-> finger,
                       position |-> position]
           /\ outcome' = r.outcome
           /\ ret' = r.ret
           /\ tx' = r.tx
           /\ UNCHANGED <<hand, locals, wire>>

\* The caller takes the outcome of the call that ended.
Return ==
    /\ outcome \notin {"idle", "running"}
    /\ call' = NoCall
    /\ outcome' = "idle"
    /\ ret' = <<>>
    /\ tx' = <<>>
    /\ drain_reads' = 0
    /\ UNCHANGED <<hand, locals, rx, pending>>

Next ==
    \/ CallValidateJointValues
    \/ CallCalculateChecksum
    \/ CallConvertToModbusValues
    \/ CallConvertToSerialBytes
    \/ CallReshapeTactileData
    \/ NewHand
    \/ SetDebug
    \/ SerialConnect
    \/ SerialDisconnect
    \/ SerialResetError
    \/ SerialSet
    \/ SerialSetActionSequence
    \/ SerialRunActionSequence
    \/ SerialGet12
    \/ SerialGet6
    \/ SerialWriteRegister
    \/ SerialReadRegister
    \/ SerialDrain
    \/ DeviceSend
    \/ ModbusConnect
    \/ ModbusDisconnect
    \/ ModbusResetError
    \/ ModbusSet
    \/ ModbusSetActionSequence
    \/ ModbusRunActionSequence
    \/ ModbusGet16
    \/ ModbusGet8
    \/ ModbusWriteRegister
    \/ ModbusReadRegister
    \/ ModbusReadSegmented
    \/ ModbusReadSegment
    \/ DeviceChange
    \/ ModbusGetAllTactileData
    \/ ModbusTactileEntry
    \/ ModbusGetTactileData
    \/ Return

Spec == Init /\ [][Next]_vars

(***************************************************************************)
(* Properties.                                                             *)
(***************************************************************************)
\* The sum of s[a..b].
RECURSIVE SumRange(_, _, _)
SumRange(s, a, b) == IF a > b THEN 0 ELSE s[a] + SumRange(s, a + 1, b)

\* A valid joint vector: 6 elements, each -1 or in 0..1000.
IsJointVector(v) ==
    Len(v) = 6 /\ \A i \in 1..Len(v) : v[i] = -1 \/ v[i] \in 0..1000

\* The same of the integers a caller passes, for the range min..max.
IsWideJointVector(values, min, max) ==
    /\ Len(values) = 6
    /\ \A i \in 1..Len(values) :
           values[i].high = 0 /\ (values[i].low = -1 \/ values[i].low \in min..max)

SerialWriteOps ==
    {"set_angle", "set_pos", "set_speed", "set_force", "reset_error",
     "set_action_sequence", "run_action_sequence", "_write_register"}

\* The register address a serial write is for.
WriteAddressOf(c) ==
    IF c.op = "_write_register" THEN c.addr
    ELSE regdict[CASE c.op = "set_angle" -> "ANGLE_SET"
                   [] c.op = "set_pos" -> "POS_SET"
                   [] c.op = "set_speed" -> "SPEED_SET"
                   [] c.op = "set_force" -> "FORCE_SET"
                   [] c.op = "reset_error" -> "CLEAR_ERROR"
                   [] c.op = "set_action_sequence" -> "ACTION_SEQ_INDEX"
                   [] c.op = "run_action_sequence" -> "ACTION_SEQ_RUN"].addr

IsWriteFrame(f, hand_id, addr) ==
    /\ Len(f) >= 8
    /\ f[1] = 235
    /\ f[2] = 144
    /\ f[3] = hand_id
    /\ f[4] = (Len(f) - 8) + 3
    /\ f[5] = 18
    /\ f[6] = addr % 256
    /\ f[7] = (addr \div 256) % 256
    /\ f[Len(f)] = SumRange(f, 3, Len(f) - 1) % 256

\* The set_angle([500,500,500,500,500,0]) call for hand 1 on Gen3 has returned.
SampleAnglesWritten ==
    /\ session = "serial"
    /\ call.op = "set_angle"
    /\ call.values = NdArray(sample_angles)
    /\ call.hand_id = 1
    /\ generation = 3
    /\ outcome = "return"

\* C1 (as claimed): every frame a serial write operation puts on the
\* transport is [0xEB, 0x90, hand_id, payload_len + 3, 0x12, addr_lo, addr_hi,
\* payload..., checksum], the checksum being the sum of the bytes from index
\* 2 up to the byte before it, mod 256; set_angle([500,500,500,500,500,0]) for
\* hand 1 on Gen3 emits EB 90 01 0F 12 AE 05 F4 01 F4 01 F4 01 F4 01 F4 01 00
\* 00 followed by that checksum.
C1_WriteFrameAsClaimed ==
    (session = "serial" /\ call.op \in SerialWriteOps) =>
        /\ \A i \in 1..Len(tx) : IsWriteFrame(tx[i], call.hand_id, WriteAddressOf(call))
        /\ SampleAnglesWritten =>
               /\ Len(tx) = 1
               /\ SubSeq(tx[1], 1, 19) =
                      <<235, 144, 1, 15, 18, 174, 5, 244, 1, 244, 1, 244, 1,
                        244, 1, 244, 1, 0, 0>>
               /\ Len(tx[1]) = 20
               /\ tx[1][20] = SumRange(tx[1], 3, 19) % 256

\* C1 (amended): the same layout for every frame of every serial write
\* operation, and set_angle([500,500,500,500,500,0]) for hand 1 on Gen3 emits
\* EB 90 01 0F 12 CE 05 F4 01 F4 01 F4 01 F4 01 F4 01 00 00 BE: the address
\* 1486 is 0x05CE, so addr_lo is 0xCE, and the checksum is 0xBE.
C1_WriteFrameLayout ==
    (session = "serial" /\ call.op \in SerialWriteOps) =>
        /\ \A i \in 1..Len(tx) : IsWriteFrame(tx[i], call.hand_id, WriteAddressOf(call))
        /\ SampleAnglesWritten =>
               tx = << <<235, 144, 1, 15, 18, 206, 5, 244, 1, 244, 1, 244, 1,
                         244, 1, 244, 1, 0, 0, 190>> >>

C1_Witness ==
    /\ SampleAnglesWritten
    /\ Len(tx) = 1
    /\ tx[1][6] = 206

SerialReadOps ==
    {"get_angle_actual", "get_angle_set", "get_pos_actual", "get_pos_set",
     "get_speed_set", "get_force_actual", "get_force_set", "get_current_actual",
     "get_error", "get_temp", "_read_register"}

\* The register address and the number of bytes a serial read asks for.
ReadRequestOf(c) ==
    CASE c.op = "_read_register" -> <<c.addr, c.num>>
      [] c.op = "get_angle_actual" -> <<regdict["ANGLE_ACT"].addr, 12>>
      [] c.op = "get_angle_set" -> <<regdict["ANGLE_SET"].addr, 12>>
      [] c.op = "get_pos_actual" -> <<regdict["POS_ACT"].addr, 12>>
      [] c.op = "get_pos_set" -> <<regdict["POS_SET"].addr, 12>>
      [] c.op = "get_speed_set" -> <<regdict["SPEED_SET"].addr, 12>>
      [] c.op = "get_force_actual" -> <<regdict["FORCE_ACT"].addr, 12>>
      [] c.op = "get_force_set" -> <<regdict["FORCE_SET"].addr, 12>>
      [] c.op = "get_current_actual" -> <<regdict["CURRENT"].addr, 6>>
      [] c.op = "get_error" -> <<regdict["ERROR"].addr, 6>>
      [] c.op = "get_temp" -> <<regdict["TEMP"].addr, 6>>

IsReadFrame(f, hand_id, addr, num) ==
    /\ Len(f) = 9
    /\ f = <<235, 144, hand_id, 4, 17, addr % 256, (addr \div 256) % 256, num, f[9]>>
    /\ f[9] = (f[3] + f[4] + f[5] + f[6] + f[7] + f[8]) % 256

\* C2: every frame a serial read puts on the transport is the 9-byte frame
\* [0xEB, 0x90, hand_id, 0x04, 0x11, addr_lo, addr_hi, num_bytes, checksum]
\* with checksum = (sum of the bytes at index 2..7) mod 256, and a read call
\* that returns has written exactly one frame (one that raises, at most one).
C2_ReadFrameLayout ==
    (session = "serial" /\ call.op \in SerialReadOps) =>
        /\ \A i \in 1..Len(tx) :
               IsReadFrame(tx[i], call.hand_id, ReadRequestOf(call)[1],
                           ReadRequestOf(call)[2])
        /\ outcome = "return" => Len(tx) = 1
        /\ Len(tx) <= 1

C2_Witness ==
    /\ session = "serial"
    /\ call.op = "_read_register"
    /\ outcome = "return"
    /\ call.addr = 1546
    /\ call.num = 12
    /\ call.hand_id = 1
    /\ tx = << <<235, 144, 1, 4, 17, 10, 6, 12, 50>> >>

\* C3 (as claimed): for every valid joint vector v, decoding the 12 serial
\* bytes made from v gives back v, also for elements equal to -1.
C3_RoundTrip ==
    (call.op = "convert_to_serial_bytes" /\ IsJointVector(call.values)) =>
        convert_12bytes_to_6values(ret) = Returned(call.values)

\* C4: for every valid joint vector v, convert_to_modbus_values(v) has 6
\* words, word i is 0xFFFF exactly when v[i] = -1, and every other element
\* is passed through unchanged (a 16-bit value).
C4_ModbusSentinel ==
    (call.op = "convert_to_modbus_values" /\ IsJointVector(call.values)) =>
        /\ Len(ret) = 6
        /\ \A i \in 1..6 :
               /\ (ret[i] = 65535) <=> (call.values[i] = -1)
               /\ call.values[i] # -1 => ret[i] = call.values[i]
               /\ ret[i] \in 0..65535

C4_Witness ==
    /\ call.op = "convert_to_modbus_values"
    /\ IsJointVector(call.values)
    /\ \E i, j \in 1..6 : call.values[i] = -1 /\ call.values[j] = 500
    /\ outcome = "return"

Swap(data, i, j) == [data EXCEPT ![i] = data[j], ![j] = data[i]]

\* The pairs of positions >= 2 (counted from 0) of a byte string.
SwapPairs(data) == { p \in (3..Len(data)) \X (3..Len(data)) : p[1] < p[2] }

\* C5 (as claimed): swapping two bytes at positions >= 2 that hold different
\* values changes the checksum.
C5_OrderSensitive ==
    call.op = "calculate_checksum" =>
        \A p \in SwapPairs(call.data) :
            call.data[p[1]] # call.data[p[2]] =>
                calculate_checksum(Swap(call.data, p[1], p[2])) # ret

\* C5 (amended): the checksum is the sum of the bytes from index 2 on, mod
\* 256, so it is order-insensitive: swapping any two bytes at positions >= 2
\* leaves the result unchanged.
C5_OrderInsensitive ==
    call.op = "calculate_checksum" =>
        /\ ret = SumRange(call.data, 3, Len(call.data)) % 256
        /\ \A p \in SwapPairs(call.data) :
               calculate_checksum(Swap(call.data, p[1], p[2])) = ret

C5_Witness ==
    /\ call.op = "calculate_checksum"
    /\ outcome = "return"
    /\ \E p \in SwapPairs(call.data) : call.data[p[1]] # call.data[p[2]]

\* C6 (as claimed): validate_joint_values raises ValidationError unless the
\* input has exactly 6 elements, each -1 or within [min, max]; otherwise it
\* returns the 6 values unchanged.
C6_ValidateJointValues ==
    call.op = "validate_joint_values" =>
        IF IsWideJointVector(call.values, call.min_val, call.max_val)
        THEN /\ outcome = "return"
             /\ ret = [i \in 1..6 |-> call.values[i].low]
        ELSE outcome = "ValidationError"

SetOps == {"set_angle", "set_pos", "set_speed", "set_force"}

\* A finger/position pair get_tactile_data admits.
IsSensor(finger, position) ==
    \/ finger = "palm"
    \/ finger \in {"pinky", "ring", "middle", "index"}
           /\ position \in {"top", "tip", "base"}
    \/ finger = "thumb" /\ position \in {"top", "tip", "mid", "base"}

\* C7 (as claimed): in any connection state, a set_angle/set_pos/set_speed/
\* set_force call with an invalid joint vector, a serial write_register call
\* with an address not in the generation's map, and a get_tactile_data call
\* with an invalid finger/position raise ValidationError with nothing sent
\* and the connection state unchanged.
C7_ValidationBeforeIO ==
    [][ (/\ Idle
         /\ \/ call'.op \in SetOps
                   /\ ~IsWideJointVector(call'.values, 0, 1000)
            \/ session = "serial" /\ call'.op = "_write_register"
                   /\ call'.addr \notin valid_addrs
            \/ call'.op = "get_tactile_data"
                   /\ ~IsSensor(call'.finger, call'.position))
        => (/\ outcome' = "ValidationError"
            /\ tx' = <<>>
            /\ UNCHANGED <<connected, ser, client>>) ]_vars

\* ceil(a / b)
CeilDiv(a, b) == (a + b - 1) \div b

RECURSIVE SumCounts(_)
SumCounts(log) == IF log = <<>> THEN 0 ELSE Head(log).count + SumCounts(Tail(log))

RECURSIVE ConcatReplies(_)
ConcatReplies(log) ==
    IF log = <<>> THEN <<>> ELSE Head(log).reply.registers \o ConcatReplies(Tail(log))

\* C8: a Modbus read of count <= 125 registers is one transaction; a read of
\* more is ceil(count/125) transactions of at most 125 registers, the k-th
\* at address + 125*k, whose counts sum to count, and it returns the segment
\* results concatenated in that order (200 from 1000: (1000,125), (1125,75)).
\* The loop terminates: an unfinished read has issued n < ceil(count/125)
\* transactions, has count - 125*n > 0 registers left, and can take its next
\* step.
C8_Segmentation ==
    (session = "modbus" /\ call.op = "_read_register") =>
        LET n == Len(tx)
            segments == CeilDiv(call.count, 125)
        IN
        /\ n <= segments
        /\ \A k \in 1..n :
               /\ tx[k].address = call.address + 125 * (k - 1)
               /\ tx[k].count = Min(125, call.count - 125 * (k - 1))
               /\ tx[k].count \in 1..125
        /\ outcome = "return" =>
               /\ n = segments
               /\ SumCounts(tx) = call.count
               /\ ret = ConcatReplies(tx)
        /\ outcome = "running" =>
               /\ n < segments
               /\ remaining_count = call.count - 125 * n
               /\ remaining_count > 0
               /\ ENABLED ModbusReadSegment
        /\ (call.address = 1000 /\ call.count = 200 /\ outcome = "return") =>
               /\ n = 2
               /\ <<tx[1].address, tx[1].count>> = <<1000, 125>>
               /\ <<tx[2].address, tx[2].count>> = <<1125, 75>>

C8_Witness ==
    /\ session = "modbus"
    /\ call.op = "_read_register"
    /\ call.address = 1000
    /\ call.count = 200
    /\ outcome = "return"
    /\ Len(tx) = 2
    /\ Len(ret) = 200
    /\ ret[126] = tx[2].reply.registers[1]

\* C9: in a segmented Modbus read an error on any segment aborts the read
\* with CommunicationError: the failing transaction is the last one issued,
\* and nothing read by the earlier segments is returned.
C9_SegmentErrorAborts ==
    (session = "modbus" /\ call.op = "_read_register" /\ call.count > 125) =>
        \A k \in 1..Len(tx) :
            tx[k].reply.kind \in {"error", "exception"} =>
                /\ k = Len(tx)
                /\ outcome = "CommunicationError"
                /\ ret = <<>>
                /\ ~ENABLED ModbusReadSegment

C9_Witness ==
    /\ session = "modbus"
    /\ call.op = "_read_register"
    /\ call.count = 200
    /\ Len(tx) = 2
    /\ tx[1].reply.kind = "ok"
    /\ tx[2].reply.kind = "error"
    /\ outcome = "CommunicationError"

\* C10: on a Gen3 Modbus hand, get_all_tactile_data and get_tactile_data (for
\* any finger and position) raise GenerationError without any transaction,
\* connected or not.
C10_TactileOnlyGen4 ==
    (/\ session = "modbus"
     /\ generation = 3
     /\ call.op \in {"get_all_tactile_data", "get_tactile_data"}) =>
        /\ outcome = "GenerationError"
        /\ tx = <<>>

C10_Witness ==
    /\ session = "modbus"
    /\ generation = 3
    /\ connected
    /\ call.op = "get_all_tactile_data"
    /\ outcome = "GenerationError"

\* is_connected() of the hand of this session.
IsConnected ==
    IF session = "serial" THEN SerialIsConnected ELSE ModbusIsConnected

\* C18: while is_connected() is false (a hand just constructed, after a
\* failed connect(), after a disconnect() that returned True), the low-level
\* read and write primitives of both engines raise CommunicationError and
\* send nothing; a hand that has no transport object yet is not connected.
C18_NotConnectedRaises ==
    session \in {"serial", "modbus"} =>
        /\ (call.op \in {"_read_register", "_write_register"} /\ ~IsConnected) =>
               /\ outcome = "CommunicationError"
               /\ tx = <<>>
        /\ (ser = "none" /\ client = "none") => (~connected /\ ~IsConnected)

C18_Witness ==
    /\ session = "serial"
    /\ ser = "closed"
    /\ call.op = "_write_register"
    /\ call.addr \notin valid_addrs
    /\ outcome = "CommunicationError"
    /\ tx = <<>>

\* A Modbus transaction that failed: the client raised, or a read got an
\* error response.
FailedTxn(t) ==
    IF "values" \in DOMAIN t
    THEN t.reply = "exception"
    ELSE t.reply.kind \in {"error", "exception"}

\* C19 (as claimed): after a transport read or write has failed on a
\* connected hand, is_connected() is false.
C19_InvalidatedByIOFailure ==
    (/\ session = "modbus"
     /\ outcome = "CommunicationError"
     /\ Len(tx) > 0
     /\ FailedTxn(tx[Len(tx)])) =>
        ~IsConnected

\* The transports of this hand that are open.
OpenTransports ==
    orphans + (IF ser = "open" THEN 1 ELSE 0) + (IF client = "open" THEN 1 ELSE 0)

\* C20 (as claimed): over any sequence of connect() and disconnect() calls a
\* hand has at most one open transport, and connect() never leaves an
\* earlier transport open and unreferenced.
C20_OneTransport ==
    /\ OpenTransports <= 1
    /\ orphans = 0

\* C13: for a sensor other than the palm, reshape_tactile_data(flat, rows,
\* cols, is_palm=False) returns the rows x cols matrix M with M[r][c] =
\* flat[r*cols + c], and raises ValidationError, with no matrix, whenever
\* len(flat) # rows*cols.
C13_FingerReshape ==
    (call.op = "reshape_tactile_data" /\ ~call.is_palm) =>
        IF Len(call.raw_data) = call.rows * call.cols
        THEN /\ outcome = "return"
             /\ Len(ret) = call.rows
             /\ \A r \in 0..(call.rows - 1) :
                    /\ Len(ret[r + 1]) = call.cols
                    /\ \A c \in 0..(call.cols - 1) :
                           ret[r + 1][c + 1] = call.raw_data[(r * call.cols + c) + 1]
        ELSE /\ outcome = "ValidationError"
             /\ ret = <<>>

C13_Witness ==
    /\ call.op = "reshape_tactile_data"
    /\ ~call.is_palm
    /\ <<call.rows, call.cols>> = <<10, 8>>
    /\ outcome = "return"
    /\ ret[2][1] = 9
    /\ ret[1][2] = 2

\* C14: for the palm, reshape_tactile_data(flat, rows, cols, is_palm=True)
\* returns the rows x cols matrix M (8 x 14 for the palm register) with
\* M[r][c] = flat[c*rows + r]; it differs from the non-palm matrix of the
\* same flat input exactly at the positions where flat[c*rows + r] #
\* flat[r*cols + c].
C14_PalmReshape ==
    (/\ call.op = "reshape_tactile_data"
     /\ call.is_palm
     /\ Len(call.raw_data) = call.rows * call.cols) =>
        LET finger == reshape_tactile_data(call.raw_data, call.rows, call.cols, FALSE).ret
        IN
        /\ outcome = "return"
        /\ Len(ret) = call.rows
        /\ \A r \in 0..(call.rows - 1) :
               /\ Len(ret[r + 1]) = call.cols
               /\ \A c \in 0..(call.cols - 1) :
                      /\ ret[r + 1][c + 1] = call.raw_data[(c * call.rows + r) + 1]
                      /\ (ret[r + 1][c + 1] # finger[r + 1][c + 1]) <=>
                             (call.raw_data[(c * call.rows + r) + 1] #
                                  call.raw_data[(r * call.cols + c) + 1])
        /\ REGISTERS_GEN4["PALM_TAC"].shape = <<8, 14>>

C14_Witness ==
    /\ call.op = "reshape_tactile_data"
    /\ call.is_palm
    /\ <<call.rows, call.cols>> = <<8, 14>>
    /\ outcome = "return"
    /\ ret[1][2] = 9
    /\ ret[2][1] = 2
    /\ ret # reshape_tactile_data(call.raw_data, 8, 14, FALSE).ret

\* The bytes a reply holds for the caller: min(recv[3] - 3, len(recv) - 7)
\* bytes from offset 7, none when the reply has fewer than 7 bytes.
ReplyData(recv) ==
    IF Len(recv) < 7
    THEN <<>>
    ELSE LET n == Min(recv[4] - 3, Len(recv) - 7) IN
         IF n <= 0 THEN <<>> ELSE SubSeq(recv, 8, 7 + n)

\* A serial read call whose request went out and whose reply was read: the
\* hand is connected, the request's bytes are bytes and the transport did not
\* raise.
SerialRequestSent ==
    /\ session = "serial"
    /\ call.op \in SerialReadOps
    /\ SerialIsConnected
    /\ call.hand_id \in 0..255
    /\ call.op = "_read_register" => call.num \in 0..255
    /\ outcome # "SerialException"

\* C15: serial _read_register on a connected hand never raises because of
\* what it receives: it returns [] when nothing or fewer than 7 bytes came,
\* and otherwise the min(recv[3] - 3, len(recv) - 7) bytes from offset 7
\* (none if that is <= 0), whether or not recv[3] - 3 is the number asked for.
C15_SerialReadFailsSoft ==
    (SerialRequestSent /\ call.op = "_read_register") =>
        /\ outcome = "return"
        /\ ret = ReplyData(call.recv)

C15_Witness ==
    /\ SerialRequestSent
    /\ call.op = "_read_register"
    /\ Len(call.recv) >= 7
    /\ call.recv[4] - 3 # call.num
    /\ outcome = "return"
    /\ Len(ret) = call.num + 1

\* C16: _read6 returns [] whenever _read_register yields fewer than 6 bytes
\* and _read12 returns [] whenever it yields fewer than 12; with at least 12
\* bytes _read12 returns the 6 little-endian words of the first 12.
C16_TypedHelpersFailSoft ==
    (SerialRequestSent /\ call.op # "_read_register") =>
        LET val == ReplyData(call.recv) IN
        /\ outcome = "return"
        /\ call.op \in DOMAIN SerialGetters6 =>
               /\ Len(val) < 6 => ret = <<>>
               /\ Len(val) >= 6 => ret = val
        /\ call.op \in DOMAIN SerialGetters12 =>
               /\ Len(val) < 12 => ret = <<>>
               /\ Len(val) >= 12 =>
                      ret = [i \in 1..6 |-> val[2 * i - 1] + 256 * val[2 * i]]

C16_Witness ==
    /\ SerialRequestSent
    /\ call.op = "get_angle_actual"
    /\ outcome = "return"
    /\ Len(ReplyData(call.recv)) = 13
    /\ ret[1] = 83 + 256 * 166

\* A getter of the Modbus engine.
ModbusGetterOps == DOMAIN ModbusGetters16 \cup DOMAIN ModbusGetters8

\* C17 (as claimed): on an established connection a typed getter of either
\* engine whose request got a short, malformed or error reply returns an
\* empty sequence and does not raise.
C17_GettersLenient ==
    /\ (SerialRequestSent /\ call.op # "_read_register") =>
           /\ outcome = "return"
           /\ Len(ReplyData(call.recv)) <
                  (IF call.op \in DOMAIN SerialGetters6 THEN 6 ELSE 12) => ret = <<>>
    /\ (/\ session = "modbus"
        /\ call.op \in ModbusGetterOps
        /\ ModbusIsConnected
        /\ Len(tx) = 1
        /\ tx[1].reply.kind # "ok") =>
           /\ outcome = "return"
           /\ ret = <<>>

\* The frame of sensor k (an index of tactile_sensors) in a snapshot.
FrameOf(snapshot, k) ==
    IF tactile_sensors[k][2] = "palm"
    THEN snapshot.palm
    ELSE snapshot[tactile_sensors[k][2]][tactile_sensors[k][3]]

\* The transactions of the call in progress at the register of sensor k.
ReadsOf(k) ==
    { i \in 1..Len(tx) : tx[i].address = REGISTERS_GEN4[tactile_sensors[k][1]].addr }

\* The matrix of the flat words of sensor k.
MatrixOf(words, k) ==
    LET rows == REGISTERS_GEN4[tactile_sensors[k][1]].shape[1]
        cols == REGISTERS_GEN4[tactile_sensors[k][1]].shape[2]
    IN [r \in 1..rows |-> [c \in 1..cols |->
           IF tactile_sensors[k][2] = "palm"
           THEN words[(c - 1) * rows + r]
           ELSE words[(r - 1) * cols + c]]]

Snapshot ==
    /\ session = "modbus"
    /\ call.op = "get_all_tactile_data"
    /\ generation = 4

\* C11 (as claimed): get_all_tactile_data on a connected Gen4 hand never
\* aborts because of one sensor: all 17 registers are read and a snapshot
\* is returned, in which the frame of a register whose read was short or
\* failed is empty.
C11_PartialSnapshot ==
    (Snapshot /\ ModbusIsConnected /\ outcome # "running") =>
        /\ outcome = "return"
        /\ Len(tx) = 17
        /\ \A k \in 1..17 :
               (\E i \in ReadsOf(k) : tx[i].reply.kind # "ok") => FrameOf(ret, k) = <<>>

\* C12: over any sequence of get_all_tactile_data calls, every frame of a
\* returned snapshot is empty or is the matrix of the words that this call
\* read from that sensor's register; the frame of a sensor whose read was
\* short is empty.
C12_NoStaleFrames ==
    (Snapshot /\ outcome = "return") =>
        \A k \in 1..17 :
            /\ Cardinality(ReadsOf(k)) = 1
            /\ \A i \in ReadsOf(k) :
                   IF tx[i].reply.kind = "ok"
                   THEN FrameOf(ret, k) = MatrixOf(tx[i].reply.registers, k)
                   ELSE FrameOf(ret, k) = <<>>

\* The second snapshot of a hand (the device's readings of the first one are
\* others), with a short read of the first sensor.
C12_Witness ==
    /\ Snapshot
    /\ outcome = "return"
    /\ device_epoch # 1
    /\ tx[1].reply.kind = "short"
    /\ ret.pinky.top = <<>>
    /\ ret.pinky.tip # <<>>
    /\ ret.palm # <<>>

ModbusWriteOps ==
    {"set_angle", "set_pos", "set_speed", "set_force", "reset_error",
     "set_action_sequence", "run_action_sequence", "_write_register"}

\* C21 (as claimed): a Modbus write on a connected hand that the device
\* answers with an exception response does not return success.
C21_WriteErrorFails ==
    (/\ session = "modbus"
     /\ call.op \in ModbusWriteOps
     /\ Len(tx) = 1
     /\ tx[1].reply = "error") =>
        outcome # "return"

\* The entry of tactile_sensors that get_tactile_data(finger, position) is
\* for (the palm has one sensor, whatever the position).
SensorIndex(finger, position) ==
    CHOOSE k \in 1..Len(tactile_sensors) :
        /\ tactile_sensors[k][2] = finger
        /\ finger = "palm" \/ tactile_sensors[k][3] = position

SingleSensor ==
    /\ session = "modbus"
    /\ call.op = "get_tactile_data"
    /\ generation = 4

\* C22 (as claimed): get_tactile_data on Gen4 raises ValidationError, before
\* any I/O, whenever finger is not one of pinky, ring, middle, index, thumb,
\* palm or position is not one of top, tip, base (mid for the thumb only).
C22_TactileArgumentsAsClaimed ==
    (/\ SingleSensor
     /\ \/ call.finger \notin {"pinky", "ring", "middle", "index", "thumb", "palm"}
        \/ /\ call.position \notin {"top", "tip", "base"}
           /\ ~(call.finger = "thumb" /\ call.position = "mid")) =>
        /\ outcome = "ValidationError"
        /\ tx = <<>>

\* C22 (amended): get_tactile_data on Gen4 raises ValidationError, before any
\* I/O, whenever finger is not one of the six names, or finger is not palm
\* and position is not one of top, tip, base (mid for the thumb only); for
\* palm the position is ignored.  For every other combination, on a
\* connected hand, it reads exactly the register FINGER_POSITION_TAC
\* (PALM_TAC for palm), once and whole, and returns the matrix of that
\* register's shape when the read is complete and an empty array when it is
\* short.
C22_TactileArguments ==
    SingleSensor =>
        IF ~IsSensor(call.finger, call.position)
        THEN /\ outcome = "ValidationError"
             /\ tx = <<>>
        ELSE ModbusIsConnected =>
                 LET k == SensorIndex(call.finger, call.position)
                     reg == REGISTERS_GEN4[tactile_sensors[k][1]]
                 IN
                 /\ Len(tx) = 1
                 /\ tx[1].address = reg.addr
                 /\ tx[1].count = reg.shape[1] * reg.shape[2]
                 /\ tx[1].reply.kind = "ok" =>
                        /\ outcome = "return"
                        /\ ret = MatrixOf(tx[1].reply.registers, k)
                        /\ <<Len(ret), Len(ret[1])>> = reg.shape
                 /\ tx[1].reply.kind = "short" =>
                        /\ outcome = "return"
                        /\ ret = <<>>

\* The palm read with the default position, and nothing raised.
C22_Witness ==
    /\ SingleSensor
    /\ ModbusIsConnected
    /\ call.finger = "palm"
    /\ call.position = ""
    /\ outcome = "return"
    /\ <<Len(ret), Len(ret[1])>> = <<8, 14>>
    /\ tx[1].address = 4900

\* C24: _read6_8bit reads exactly 3 words and returns the 6 bytes [w0 &
\* 0xFF, w0 >> 8, w1 & 0xFF, w1 >> 8, w2 & 0xFF, w2 >> 8], each in 0..255,
\* and returns [] when fewer than 3 words are read; _read6_16bit returns []
\* when fewer than 6 words are read.
C24_Read6 ==
    (/\ session = "modbus"
     /\ call.op \in ModbusGetterOps
     /\ Len(tx) = 1
     /\ tx[1].reply.kind \in {"ok", "short"}) =>
        LET w == tx[1].reply.registers IN
        /\ outcome = "return"
        /\ call.op \in DOMAIN ModbusGetters8 =>
               /\ tx[1].count = 3
               /\ tx[1].address = regdict[ModbusGetters8[call.op]].addr
               /\ Len(w) < 3 => ret = <<>>
               /\ Len(w) >= 3 =>
                      /\ ret = <<w[1] % 256, w[1] \div 256, w[2] % 256, w[2] \div 256,
                                 w[3] % 256, w[3] \div 256>>
                      /\ \A i \in 1..6 : ret[i] \in 0..255
        /\ call.op \in DOMAIN ModbusGetters16 =>
               /\ tx[1].count = 6
               /\ Len(w) < 6 => ret = <<>>
               /\ Len(w) >= 6 => ret = w

C24_Witness ==
    /\ session = "modbus"
    /\ call.op = "get_error"
    /\ Len(tx) = 1
    /\ tx[1].reply.kind = "ok"
    /\ outcome = "return"
    /\ Len(ret) = 6
    /\ ret[1] # ret[2]

\* The register map of the generation the hand was created with.
ActiveMap == IF generation = 3 THEN REGISTERS_GEN3 ELSE REGISTERS_GEN4

\* The address a frame (serial) or a transaction (Modbus) is for.
AddressOf(t) ==
    IF session = "serial" THEN t[6] + 256 * t[7] ELSE t.address

\* C25 (as claimed): on a connected serial hand of either generation,
\* set_action_sequence(hand_id, id) is one write of the byte [id] to
\* ACTION_SEQ_INDEX (2320) and run_action_sequence(hand_id) one write of the
\* byte [1] to ACTION_SEQ_RUN (2322), with frame length field 4.
C25_ActionSequenceWrites ==
    (/\ session = "serial"
     /\ SerialIsConnected
     /\ call.op \in {"set_action_sequence", "run_action_sequence"}
     /\ call.hand_id \in 0..255
     /\ call.op = "set_action_sequence" => call.sequence_id \in 0..255) =>
        /\ outcome \in {"running", "return", "SerialException"}
        /\ Len(tx) <= 1
        /\ outcome = "return" =>
               /\ Len(tx) = 1
               /\ Len(tx[1]) = 9
               /\ tx[1][4] = 4
               /\ IF call.op = "set_action_sequence"
                  THEN AddressOf(tx[1]) = 2320 /\ tx[1][8] = call.sequence_id
                  ELSE AddressOf(tx[1]) = 2322 /\ tx[1][8] = 1

\* The register name an operation looks up.
RegisterNameOf(c) ==
    CASE c.op \in {"set_angle", "get_angle_set"} -> "ANGLE_SET"
      [] c.op = "set_pos" -> IF session = "serial" THEN "POS_SET" ELSE "ANGLE_SET"
      [] c.op = "get_pos_set" -> IF session = "serial" THEN "POS_SET" ELSE "ANGLE_SET"
      [] c.op = "get_pos_actual" -> IF session = "serial" THEN "POS_ACT" ELSE "ANGLE_ACT"
      [] c.op = "get_angle_actual" -> "ANGLE_ACT"
      [] c.op \in {"set_speed", "get_speed_set"} -> "SPEED_SET"
      [] c.op \in {"set_force", "get_force_set"} -> "FORCE_SET"
      [] c.op = "get_force_actual" -> "FORCE_ACT"
      [] c.op = "get_current_actual" -> "CURRENT"
      [] c.op = "get_error" -> "ERROR"
      [] c.op \in {"get_temp", "get_temperature"} -> "TEMP"
      [] c.op = "get_status" -> "STATUS"
      [] c.op = "reset_error" -> "CLEAR_ERROR"
      [] c.op = "set_action_sequence" -> "ACTION_SEQ_INDEX"
      [] c.op = "run_action_sequence" -> "ACTION_SEQ_RUN"
      [] c.op = "get_tactile_data" ->
             tactile_sensors[SensorIndex(c.finger, c.position)][1]

NamedOps ==
    {"set_angle", "set_pos", "set_speed", "set_force", "reset_error",
     "set_action_sequence", "run_action_sequence",
     "get_angle_actual", "get_angle_set", "get_pos_actual", "get_pos_set",
     "get_speed_set", "get_force_actual", "get_force_set", "get_current_actual",
     "get_error", "get_temp", "get_temperature", "get_status"}

\* A call that looks a register up by name.
LooksUpRegister ==
    /\ session \in {"serial", "modbus"}
    /\ \/ call.op \in NamedOps
       \/ call.op = "get_tactile_data" /\ IsSensor(call.finger, call.position)

\* C26: an operation that needs a register name absent from the map of the
\* hand's generation fails with an error and sends nothing; whatever an
\* operation sends goes to the address its name has in that map, never to a
\* default or to the other generation's address.
C26_AbsentNameFails ==
    LooksUpRegister =>
        IF RegisterNameOf(call) \in DOMAIN ActiveMap
        THEN \A i \in 1..Len(tx) : AddressOf(tx[i]) = ActiveMap[RegisterNameOf(call)].addr
        ELSE /\ outcome \notin {"return", "running", "idle"}
             /\ tx = <<>>

C26_Witness ==
    /\ session = "serial"
    /\ generation = 4
    /\ SerialIsConnected
    /\ call.op = "run_action_sequence"
    /\ call.hand_id = 1
    /\ outcome = "KeyError"
    /\ tx = <<>>

\* C27 (as claimed): on both engines set_pos sends what set_angle sends, to
\* the register of set_angle (ANGLE_SET), and get_pos_actual / get_pos_set
\* read the registers of get_angle_actual / get_angle_set.
C27_PosIsAngle ==
    (/\ session \in {"serial", "modbus"}
     /\ call.op \in {"set_pos", "get_pos_actual", "get_pos_set"}) =>
        \A i \in 1..Len(tx) :
            AddressOf(tx[i]) =
                ActiveMap[IF call.op = "get_pos_actual" THEN "ANGLE_ACT"
                          ELSE "ANGLE_SET"].addr

\* C23 (as claimed): on an established connection a transport failure in
\* _read_register or _write_register of either engine reaches the caller as
\* CommunicationError, never as the transport's own exception.
C23_TransportFailuresWrapped ==
    (/\ session \in {"serial", "modbus"}
     /\ call.op \in {"_read_register", "_write_register"}) =>
        /\ outcome # "SerialException"
        /\ (/\ session = "modbus"
            /\ Len(tx) > 0
            /\ (IF "values" \in DOMAIN tx[Len(tx)]
                THEN tx[Len(tx)].reply = "exception"
                ELSE tx[Len(tx)].reply.kind = "exception")) =>
               outcome = "CommunicationError"

\* C29 (as claimed): whatever the interleaving of the device's sending with
\* the engine's steps, the buffer a serial read parses as its reply holds no
\* byte the device sent in answer to an earlier write.
C29_NoStaleBytes ==
    (SerialRequestSent /\ outcome = "return") => call.stale = <<>>

\* The drain loop of a serial write is running.
Draining == session = "serial" /\ outcome = "running"

\* C30: a serial write returns, with True, exactly from a check of the drain
\* loop that finds no byte pending.  The loop can always take its next turn;
\* a turn that finds bytes pending reads them and does not return, however
\* many reads the loop has made; a turn that finds none ends the call; and
\* once the device has nothing more to send the loop ends within two turns
\* (the first leaves nothing pending, the second returns).
C30_DrainUntilIdle ==
    /\ [](Draining => ENABLED SerialDrain)
    /\ [][Draining =>
            /\ outcome' = "return" => (rx = <<>> /\ rx' = <<>> /\ ret' = TRUE)
            /\ rx # <<>> => outcome' \in {"running", "SerialException"}
            /\ (rx = <<>> /\ rx' = <<>> /\ pending' = pending) =>
                   outcome' \in {"return", "SerialException"}
            /\ (pending = <<>> /\ outcome' = "running") =>
                   (rx # <<>> /\ rx' = <<>> /\ pending' = <<>>)]_vars

C30_Witness ==
    /\ session = "serial"
    /\ call.op = "set_angle"
    /\ outcome = "return"
    /\ ret = TRUE
    /\ drain_reads = MaxDrainReads
    /\ rx = <<>>

\* C28 (as claimed): __enter__ connects, and whenever the with-block has been
\* left, normally or with an exception, the hand is no longer connected, its
\* transport is closed, and the exception, if any, reaches the caller.
C28_ScopedConnection ==
    /\ (call.op = "__enter__" /\ outcome = "return") => (IsConnected /\ scope = "in")
    /\ (call.op = "__enter__" /\ outcome # "return") => scope = "out"
    /\ call.op = "__exit__" =>
           /\ scope = "out"
           /\ ~IsConnected
           /\ ser # "open"
           /\ client # "open"
           /\ outcome = (IF call.exc = "none" THEN "return" ELSE call.exc)

\* The transactions of a Modbus read are for consecutive blocks: each starts
\* where the one before it ends.
ConsecutiveBlocks ==
    \A i \in 1..(Len(tx) - 1) : tx[i + 1].address = tx[i].address + tx[i].count

ParsedFrom(buffer) ==
    Serial_read_register(call.hand_id, call.addr, call.num, buffer).ret

\* Bytes put in the place of a byte of the reply.
OtherBytes == {0, 85, 255}

\* C32: what serial _read_register returns does not depend on the reply's
\* start bytes, hand id, command or address bytes (indexes 0..2 and 4..6),
\* nor on its last byte when that lies beyond the data extracted: replacing
\* any of them by another byte leaves the result as it is, so a reply with a
\* wrong checksum is taken like one with the right checksum.
C32_ChecksumNotVerified ==
    (SerialRequestSent /\ call.op = "_read_register" /\ outcome = "return") =>
        /\ \A i \in {1, 2, 3, 5, 6, 7} \cap (1..Len(call.recv)) : \A b \in OtherBytes :
               ParsedFrom([call.recv EXCEPT ![i] = b]) = ret
        /\ Len(call.recv) > 7 + Len(ret) =>
               \A b \in OtherBytes :
                   ParsedFrom([call.recv EXCEPT ![Len(call.recv)] = b]) = ret

C32_Witness ==
    /\ SerialRequestSent
    /\ call.op = "_read_register"
    /\ outcome = "return"
    /\ call.num = 12
    /\ Len(call.recv) = 20
    /\ Len(ret) = 12
    /\ ParsedFrom([call.recv EXCEPT ![20] = (call.recv[20] + 1) % 256]) = ret

\* C36 (as claimed): every six-joint getter of either engine returns an
\* empty array or one of exactly 6 values.
C36_SixOrNone ==
    (/\ session \in {"serial", "modbus"}
     /\ call.op \in {"get_angle_actual", "get_angle_set", "get_speed_set",
                     "get_force_actual", "get_force_set", "get_current_actual",
                     "get_error", "get_temp", "get_status"}
     /\ outcome = "return") =>
        Len(ret) \in {0, 6}

\* C37 (as claimed): for a reply of a 7-byte header, k payload bytes and the
\* checksum byte, serial _read_register returns at most k bytes, never the
\* checksum byte.
C37_ChecksumNotData ==
    (/\ SerialRequestSent
     /\ call.op = "_read_register"
     /\ outcome = "return"
     /\ Len(call.recv) >= 8
     /\ call.recv = WithChecksum(SubSeq(call.recv, 1, Len(call.recv) - 1))) =>
        Len(ret) <= Len(call.recv) - 8

\* C38: for every valid joint vector v, -1 included, the 12 bytes of
\* convert_to_serial_bytes(v) are the low and the high byte of each of the 6
\* words of convert_to_modbus_values(v), in this order; -1 is FF FF.
C38_SameEncoding ==
    (call.op = "convert_to_serial_bytes" /\ IsJointVector(call.values)) =>
        LET words == convert_to_modbus_values(call.values) IN
        /\ Len(ret) = 12
        /\ Len(words) = 6
        /\ \A i \in 1..6 :
               /\ ret[2 * i - 1] = words[i] % 256
               /\ ret[2 * i] = words[i] \div 256
               /\ call.values[i] = -1 => (ret[2 * i - 1] = 255 /\ ret[2 * i] = 255)

C38_Witness ==
    /\ call.op = "convert_to_serial_bytes"
    /\ IsJointVector(call.values)
    /\ call.values[1] = -1
    /\ call.values[2] = 500
    /\ ret[1] = 255
    /\ ret[2] = 255
    /\ ret[3] = 244
    /\ ret[4] = 1

\* C40 (as claimed): a Modbus _read_register(address, count) that returns
\* gives exactly count words, word i being what the device reported for
\* register address + i, also when a segment's reply is short.
C40_ExactlyCount ==
    (session = "modbus" /\ call.op = "_read_register" /\ outcome = "return") =>
        /\ Len(ret) = call.count
        /\ \A i \in 1..call.count :
               LET seg == ((i - 1) \div 125) + 1
                   off == ((i - 1) % 125) + 1
               IN /\ off <= Len(tx[seg].reply.registers)
                  /\ ret[i] = tx[seg].reply.registers[off]

\* The tactile registers in the order of the claim: pinky, ring, middle,
\* index, thumb (top, tip, mid, base), palm.
ClaimedTactileOrder ==
    <<"PINKY_TOP_TAC", "PINKY_TIP_TAC", "PINKY_BASE_TAC",
      "RING_TOP_TAC", "RING_TIP_TAC", "RING_BASE_TAC",
      "MIDDLE_TOP_TAC", "MIDDLE_TIP_TAC", "MIDDLE_BASE_TAC",
      "INDEX_TOP_TAC", "INDEX_TIP_TAC", "INDEX_BASE_TAC",
      "THUMB_TOP_TAC", "THUMB_TIP_TAC", "THUMB_MID_TAC", "THUMB_BASE_TAC",
      "PALM_TAC">>

\* rows * cols of a tactile register
TactileWords(name) ==
    REGISTERS_GEN4[name].shape[1] * REGISTERS_GEN4[name].shape[2]

\* The operations of the Modbus engine other than the direct calls of its
\* two primitives.
PublicModbusCall ==
    /\ session = "modbus"
    /\ call.op \notin {"_read_register", "_write_register"}

\* C39: no read of a public Modbus operation needs segmentation: every
\* tactile register has rows * cols <= 125 words and its block is disjoint
\* from every other tactile block, every read transaction of a public
\* operation asks for at most 125 words, and a get_all_tactile_data in which
\* every read succeeds issues exactly 17 read transactions, one per tactile
\* register in the order pinky, ring, middle, index, thumb, palm, each for
\* exactly rows * cols words.  (The facts about the register map are constant;
\* they are evaluated in the states of a get_all_tactile_data call.)
C39_NoSegmentation ==
    /\ Snapshot => \A k \in 1..17 :
           /\ TactileWords(ClaimedTactileOrder[k]) <= MODBUS_MAX_REGISTERS_PER_READ
           /\ \A j \in 1..17 :
                  j # k =>
                      \/ REGISTERS_GEN4[ClaimedTactileOrder[k]].addr
                             + TactileWords(ClaimedTactileOrder[k])
                           <= REGISTERS_GEN4[ClaimedTactileOrder[j]].addr
                      \/ REGISTERS_GEN4[ClaimedTactileOrder[j]].addr
                             + TactileWords(ClaimedTactileOrder[j])
                           <= REGISTERS_GEN4[ClaimedTactileOrder[k]].addr
    /\ PublicModbusCall =>
           \A i \in 1..Len(tx) :
               tx[i].fn = "read" => tx[i].count <= MODBUS_MAX_REGISTERS_PER_READ
    /\ (Snapshot /\ outcome = "return"
           /\ \A i \in 1..Len(tx) : tx[i].reply.kind = "ok") =>
           /\ Len(tx) = 17
           /\ \A k \in 1..17 :
                  /\ tx[k].fn = "read"
                  /\ tx[k].address = REGISTERS_GEN4[ClaimedTactileOrder[k]].addr
                  /\ tx[k].count = TactileWords(ClaimedTactileOrder[k])

C39_Witness ==
    /\ Snapshot
    /\ outcome = "return"
    /\ Len(tx) = 17
    /\ \A i \in 1..17 : tx[i].reply.kind = "ok"
    /\ tx[1].address = 3000
    /\ tx[1].count = 9
    /\ tx[15].address = 4690
    /\ tx[17].address = 4900
    /\ tx[17].count = 112
    /\ Len(ret.palm) = 8

\* The words of registers address .. address + n - 1 in the device state e.
WordsAt(e, address, n) ==
    [i \in 1..n |-> AndMask((address + i - 1) * 259 + e * 4099, WORD_MASK)]

\* The replies of the call in progress are all complete.
AllRepliesOk == \A i \in 1..Len(tx) : tx[i].reply.kind = "ok"

DirectRead ==
    /\ session = "modbus"
    /\ call.op = "_read_register"
    /\ outcome = "return"
    /\ AllRepliesOk

\* C33: a Modbus _read_register with count <= 125 whose reply is complete
\* returns the registers of one single device state, and every segment of a
\* segmented read is the registers of one device state; the concatenation of
\* the segments need not be (C33_Witness: the device changed between two
\* segments, and the returned value is one no device state ever held).
C33_SingleReadOneState ==
    DirectRead =>
        /\ call.count <= MODBUS_MAX_REGISTERS_PER_READ =>
               /\ Len(tx) = 1
               /\ \E e \in 0..(NumEpochs - 1) :
                      ret = WordsAt(e, call.address, call.count)
        /\ \A i \in 1..Len(tx) :
               \E e \in 0..(NumEpochs - 1) :
                   tx[i].reply.registers = WordsAt(e, tx[i].address, tx[i].count)

C33_Witness ==
    /\ DirectRead
    /\ call.count > MODBUS_MAX_REGISTERS_PER_READ
    /\ Len(ret) = call.count
    /\ \A e \in 0..(NumEpochs - 1) :
           ret # WordsAt(e, call.address, call.count)

\* C34: the generation of a hand is always 3 or 4 and never changes:
\* construction with any other generation raises ValueError and yields no
\* instance, construction with 3 or 4 yields a hand of that generation, and
\* no step (connect, disconnect, set_debug, reads, writes) changes the
\* generation or the register map it selects.
C34_GenerationImmutable ==
    /\ [](/\ generation \in {3, 4}
          /\ regdict = (IF generation = 3 THEN REGISTERS_GEN3 ELSE REGISTERS_GEN4)
          /\ call.op = "__init__" =>
                 IF call.generation \in {3, 4}
                 THEN /\ outcome = "return"
                      /\ ret._generation = call.generation
                 ELSE /\ outcome = "ValueError"
                      /\ ret = <<>>)
    /\ [][generation' = generation /\ regdict' = regdict]_vars

C34_Witness ==
    /\ session = "utils"
    /\ call.op = "__init__"
    /\ call.generation = 5
    /\ outcome = "ValueError"
    /\ ret = <<>>

\* The bytes of the buffer parsed by the read in hand that arrived after its
\* request went out.
OwnReply == SubSeq(call.recv, Len(call.stale) + 1, Len(call.recv))

\* C35 (as claimed): the data a serial _read_register returns come from the
\* bytes the device sent in reply to that request: the result is what the
\* bytes that arrived after the request give, and a reply that arrives after
\* the read delay of an earlier read is not returned by a later read.
C35_OwnReplyOnly ==
    (SerialRequestSent /\ call.op = "_read_register" /\ outcome = "return") =>
        /\ ret = ParsedFrom(OwnReply)
        /\ (call.stale = DeviceLateReply /\ <<call.hand_id, call.addr, call.num>> # LateRequest) =>
               ret = <<>>

====
